---- MODULE Spec2Model ----
(***************************************************************************)
(* Model of the end-to-end encryption core of the messaging client:       *)
(* EncryptionManager (src/unnamed/part_003, lines 15-280) and the          *)
(* ChatManager that drives it (src/unnamed/part_004, lines 61-588),        *)
(* together with the remote tables they read and write.                    *)
(*                                                                         *)
(* Cryptography is symbolic.  A hash is an injective function of the       *)
(* pieces concatenated into its input; AES under a passphrase decrypts to  *)
(* the original text under the same passphrase and to unstructured bytes   *)
(* under any other.  Keys are numbers so that Array.prototype.sort has an  *)
(* order to sort by.  The timestamp and nonce that encryptMessage puts in  *)
(* the JSON wrapper are not represented: no operation reads them back.     *)
(***************************************************************************)
EXTENDS Integers, Sequences, FiniteSets, TLC

\* ---------------------------------------------------------------- bounds
NumUsers == 3
MaxChats == 1
MaxCalls == 2
MaxKeyVersion == 3
MaxInFlight == 1
MaxKeyList == 2
MaxCopies == 1
MaxLibChats == 2
MaxLibCalls == 3
MaxIds == 2

\* retryPendingMessages: "if (message.retry_count < 5)"
MaxRetries == 5

Users == 1..NumUsers
ChatIds == 1..MaxChats
LibChatIds == 1..MaxLibChats
PrivateKeys == 1..(NumUsers + 1)

\* ------------------------------------------------------- symbolic strings
\* A string value is either a piece of user text, a key rendered as hex, or
\* the JavaScript value undefined.
NoSecret == [alg |-> "none", keys |-> << >>, chatId |-> 0, keyVersion |-> 0]
Str(s) == [kind |-> "text", s |-> s, k |-> NoSecret]
KeyStr(k) == [kind |-> "key", s |-> "", k |-> k]
Undefined == [kind |-> "undefined", s |-> "", k |-> NoSecret]
Plaintexts == {Str(""), Str("hello")}

\* CryptoJS.SHA256(privateKey + 'public-key-derivation'): injective, and its
\* order is unrelated to the order of the private keys.
PublicKeyOf(privateKey) == 11 + ((privateKey * 5) % 11)

NoKeyPair == [publicKey |-> 0, privateKey |-> 0]
KeyPairOf(privateKey) == [publicKey |-> PublicKeyOf(privateKey), privateKey |-> privateKey]

\* CryptoJS.SHA256(privateKey + peerPublicKey)
DirectSecret(privateKey, peerPublicKey) ==
  [alg |-> "SHA256", keys |-> <<privateKey, peerPublicKey>>, chatId |-> 0, keyVersion |-> 0]

\* CryptoJS.PBKDF2(combinedKeys + chatId + keyVersion.toString(), 'chat-key-salt', ...)
PBKDF2(combinedKeys, chatId, keyVersion) ==
  [alg |-> "PBKDF2", keys |-> combinedKeys, chatId |-> chatId, keyVersion |-> keyVersion]

\* Array.prototype.sort on a list of keys (insertion sort, ascending)
RECURSIVE Insert(_, _)
Insert(x, sorted) ==
  IF sorted = << >> THEN <<x>>
  ELSE IF x <= Head(sorted) THEN <<x>> \o sorted
       ELSE <<Head(sorted)>> \o Insert(x, Tail(sorted))

RECURSIVE Sort(_)
Sort(list) == IF list = << >> THEN << >> ELSE Insert(Head(list), Sort(Tail(list)))

\* ------------------------------------------------------------ AES and JSON
\* JSON.stringify({content, timestamp, nonce})
JSONstringify(content) == [fmt |-> "meta", body |-> content]
RawText(content) == [fmt |-> "raw", body |-> content]

\* What the bytes of a decryption under the wrong passphrase can turn out to
\* be: not UTF-8, zero bytes after unpadding, text that is not JSON, or text
\* that parses as a JSON scalar such as 7.
GarbageTexts == { [fmt |-> f, body |-> Str("")] : f \in {"malformed", "empty", "nonjson", "scalar"} }

\* the outcomes to consider for a decryption: under the right passphrase the
\* bytes are the text, whatever the garbage would have been
GarbageFor(ciphertext, passphrase) ==
  IF ciphertext.key = passphrase THEN {[fmt |-> "nonjson", body |-> Str("")]} ELSE GarbageTexts

AESencrypt(text, passphrase) == [text |-> text, key |-> passphrase]
AESdecrypt(ciphertext, passphrase, garbage) ==
  IF ciphertext.key = passphrase THEN ciphertext.text ELSE garbage

\* decrypted.toString(CryptoJS.enc.Utf8) throws on bytes that are not UTF-8
Utf8Throws(text) == text.fmt = "malformed"
\* CryptoJS.enc.Base64.stringify(CryptoJS.enc.Utf8.parse(fileData)): the
\* Base64 text of no bytes is the empty string
Base64(fileData) == [fmt |-> "base64", body |-> fileData]

\* !decryptedText
TextIsEmpty(text) == \/ text.fmt = "empty"
                     \/ text.fmt \in {"raw", "base64"} /\ text.body = Str("")
\* JSON.parse(decryptedText) throws unless the text is JSON
JSONparseThrows(text) == text.fmt \in {"raw", "nonjson"}
\* JSON.parse(decryptedText).content
JSONcontent(text) == IF text.fmt = "meta" THEN text.body ELSE Undefined

NoCiphertext == AESencrypt(RawText(Str("")), NoSecret)

\* -------------------------------------------------------- EncryptionManager
NoChatKey == [present |-> FALSE, sharedSecret |-> NoSecret, keyVersion |-> 0]
NoChatKeys == [c \in ChatIds |-> NoChatKey]

\* what a call returns or throws, and the chat keys it leaves; error is the
\* message of the Error thrown
Err(cks) == [err |-> TRUE, error |-> "Failed", secret |-> NoSecret, enc |-> NoCiphertext,
             content |-> Undefined, chatKeys |-> cks]
\* throw new Error('Key pair not initialized')
NotInitialized(cks) == [Err(cks) EXCEPT !.error = "Key pair not initialized"]
RetSecret(s, cks) == [err |-> FALSE, error |-> "", secret |-> s, enc |-> NoCiphertext,
                      content |-> Undefined, chatKeys |-> cks]
RetEnc(e, cks) == [err |-> FALSE, error |-> "", secret |-> NoSecret, enc |-> e,
                   content |-> Undefined, chatKeys |-> cks]
RetContent(c, cks) == [err |-> FALSE, error |-> "", secret |-> NoSecret, enc |-> NoCiphertext,
                       content |-> c, chatKeys |-> cks]

\* the argument of PBKDF2 without the chat id and version: the sorted keys
UnsortedKeys(publicKey, participantPublicKeys) == <<publicKey>> \o participantPublicKeys
SortedKeys(publicKey, participantPublicKeys) == Sort(<<publicKey>> \o participantPublicKeys)

generateChatKey(kp, cks, chatId, participantPublicKeys, keyVersion) ==
  IF kp = NoKeyPair THEN NotInitialized(cks)
  ELSE LET sharedSecret == PBKDF2(SortedKeys(kp.publicKey, participantPublicKeys), chatId, keyVersion)
       IN RetSecret(sharedSecret,
                    [cks EXCEPT ![chatId] = [present |-> TRUE, sharedSecret |-> sharedSecret,
                                             keyVersion |-> keyVersion]])

\* keyVersion = 0 stands for an omitted keyVersion, hasKeys = FALSE for an
\* omitted participantPublicKeys
getChatKey(kp, cks, chatId, hasKeys, participantPublicKeys, keyVersion) ==
  IF cks[chatId].present /\ (keyVersion = 0 \/ cks[chatId].keyVersion = keyVersion)
  THEN RetSecret(cks[chatId].sharedSecret, cks)
  ELSE IF hasKeys /\ keyVersion # 0
       THEN generateChatKey(kp, cks, chatId, participantPublicKeys, keyVersion)
       ELSE Err(cks)

rotateChatKey(kp, cks, chatId, participantPublicKeys) ==
  LET newVersion == IF cks[chatId].present THEN cks[chatId].keyVersion + 1 ELSE 1
  IN generateChatKey(kp, cks, chatId, participantPublicKeys, newVersion)

\* the secret encryptMessage selects
EncryptSecret(kp, cks, chatId, participantPublicKeys) ==
  IF Len(participantPublicKeys) = 1
  THEN RetSecret(DirectSecret(kp.privateKey, participantPublicKeys[1]), cks)
  ELSE getChatKey(kp, cks, chatId, TRUE, participantPublicKeys, 0)

\* the text encryptMessage encrypts
MessageWithoutMeta(message) == RawText(message)
MessageWithMeta(message) == JSONstringify(message)

encryptMessage(kp, cks, message, chatId, participantPublicKeys) ==
  IF kp = NoKeyPair THEN NotInitialized(cks)
  ELSE LET sel == EncryptSecret(kp, cks, chatId, participantPublicKeys)
       IN IF sel.err THEN Err(cks)
          ELSE RetEnc(AESencrypt(MessageWithMeta(message), sel.secret), cks)

\* the secret decryptMessage selects; senderPublicKey = 0 stands for omitted
DecryptSecret(kp, cks, chatId, senderPublicKey) ==
  IF senderPublicKey # 0 /\ ~cks[chatId].present
  THEN RetSecret(DirectSecret(kp.privateKey, senderPublicKey), cks)
  ELSE getChatKey(kp, cks, chatId, FALSE, << >>, 0)

\* lines 188-197 of decryptMessage: decrypt under the selected secret, reject
\* an empty text, parse, return the content
DecryptWith(cks, encryptedMessage, sharedSecret, garbage) ==
  LET decryptedText == AESdecrypt(encryptedMessage, sharedSecret, garbage)
  IN IF Utf8Throws(decryptedText) \/ TextIsEmpty(decryptedText) \/ JSONparseThrows(decryptedText)
     THEN Err(cks)
     ELSE RetContent(JSONcontent(decryptedText), cks)

decryptMessage(kp, cks, encryptedMessage, chatId, senderPublicKey, garbage) ==
  IF kp = NoKeyPair THEN NotInitialized(cks)
  ELSE LET sel == DecryptSecret(kp, cks, chatId, senderPublicKey)
       IN IF sel.err THEN Err(cks)
          ELSE DecryptWith(cks, encryptedMessage, sel.secret, garbage)

\* the private key used as an AES passphrase
PrivateKeySecret(privateKey) ==
  [alg |-> "privateKey", keys |-> <<privateKey>>, chatId |-> 0, keyVersion |-> 0]

\* JSON.stringify(Array.from(this.chatKeys.entries()))
KeysJson(cks) == [fmt |-> "keys", body |-> cks]

\* exportChatKeys (part_003 lines 253-262)
exportChatKeys(kp, cks) ==
  IF kp = NoKeyPair THEN NotInitialized(cks)
  ELSE RetEnc(AESencrypt(KeysJson(cks), PrivateKeySecret(kp.privateKey)), cks)

\* importChatKeys (part_003 lines 265-279) applied to a backup that
\* exportChatKeys made: under another private key the bytes do not parse
\* into a list of entries
importChatKeysUnchecked(kp, cks, encryptedKeys) ==
  IF encryptedKeys.key = PrivateKeySecret(kp.privateKey)
  THEN RetSecret(NoSecret, encryptedKeys.text.body)
  ELSE Err(cks)
importChatKeys(kp, cks, encryptedKeys) ==
  IF kp = NoKeyPair THEN NotInitialized(cks)
  ELSE IF encryptedKeys.key = PrivateKeySecret(kp.privateKey)
       THEN RetSecret(NoSecret, encryptedKeys.text.body)
       ELSE Err(cks)

\* ------------------------------------------------------------------ files
\* file contents, the empty file included
Files == {Str(""), Str("file")}

\* a file key is a string of hex digits; EmptyKey is the empty string
FileKey(n) == [alg |-> "file", keys |-> <<n>>, chatId |-> 0, keyVersion |-> 0]
EmptyKey == [alg |-> "empty", keys |-> << >>, chatId |-> 0, keyVersion |-> 0]
\* key omitted
NoFileKey == NoSecret

\* generateFileKey(): 32 random bytes, never a key seen before
FreshFileKeys == {FileKey(1), FileKey(2)}

NoFileResult == [err |-> TRUE, encrypted |-> NoCiphertext, key |-> NoFileKey, data |-> Undefined]

\* "const fileKey = key || this.generateFileKey()": an omitted key and the
\* empty string are falsy
FileKeyFor(key, fresh) == IF key \in {NoFileKey, EmptyKey} THEN fresh ELSE key

\* encryptFile (part_003 lines 209-221); fresh is what generateFileKey would
\* return
encryptFile(fileData, key, fresh) ==
  LET fileKey == FileKeyFor(key, fresh)
  IN [err |-> FALSE, encrypted |-> AESencrypt(Base64(fileData), fileKey), key |-> fileKey,
      data |-> Undefined]

\* "if (!compressed) throw"
RejectEmpty(compressed) == TextIsEmpty(compressed)

\* decryptFile (part_003 lines 224-239).  Base64.parse does not throw: of
\* text that is not Base64 it makes bytes, which toString(Utf8) may reject.
decryptFile(encryptedData, key, garbage) ==
  LET compressed == AESdecrypt(encryptedData, key, garbage)
  IN IF Utf8Throws(compressed) \/ RejectEmpty(compressed) THEN NoFileResult
     ELSE IF compressed.fmt = "base64"
     THEN [NoFileResult EXCEPT !.err = FALSE, !.data = compressed.body]
     ELSE IF compressed.fmt = "scalar"
     THEN [NoFileResult EXCEPT !.err = FALSE, !.data = Str("")]
     ELSE NoFileResult

\* ------------------------------------------------------------------ state
VARIABLES
  keyPair,            \* per device: EncryptionManager.keyPair
  chatKeys,           \* per device: EncryptionManager.chatKeys
  chats,              \* remote table chats, a row per chat id
  chat_participants,  \* remote table chat_participants
  group_keys,         \* remote table group_keys
  channel,            \* broadcast payloads in flight on the chat channels
  cached,             \* history: every ChatKeyPair a device has had in chatKeys
  faults,             \* whether remote calls may fail in this run
  calls,              \* number of createChat and membership calls made
  pendingMessages,    \* per device: ChatManager.pendingMessages
  stored,             \* per device: the AsyncStorage item 'pending_messages'
  localChats,         \* per device: ChatManager.chats of src/lib/chat.ts
  localMessages,      \* per device: ChatManager.messages of src/lib/chat.ts
  auth,               \* device Me: AuthManager, its AsyncStorage items, the profiles it inserted
  tasks,              \* the membership and createChat calls in progress
  retry,              \* device Sender: the PendingMessage objects by id and the retry passes in progress
  last                \* the last call: its arguments and its outcome

vars == <<keyPair, chatKeys, chats, chat_participants, group_keys, channel, cached, faults, calls,
          pendingMessages, stored, localChats, localMessages, auth, tasks, retry, last>>

queueVars == <<pendingMessages, stored>>
sessionVars == <<auth, tasks, retry>>

\* AuthManager after construction, over an empty AsyncStorage
NoProfile == [user_id |-> 0, public_key |-> 0, mock |-> FALSE]
NoSession == [profile |-> NoProfile, expired |-> FALSE]
NoAuth == [currentUser |-> NoProfile, refreshTimer |-> FALSE,
           user_session |-> NoSession, private_key |-> 0, user_profile |-> NoProfile,
           inserted |-> {}]

\* a membership call that has not started
TaskIds == {1, 2}
NoTask == [pc |-> "idle", op |-> "none", caller |-> 0, userId |-> 0, chatId |-> 0,
           participants |-> {}, newGroupKey |-> NoSecret, entries |-> {},
           overlapped |-> FALSE]
NoTasks == [t \in TaskIds |-> NoTask]

\* the PendingMessage objects of a ChatManager after construction over an
\* empty AsyncStorage: none made, no pass of retryPendingMessages running,
\* the timer of startRetryMechanism set
RetryIds == 1..MaxIds
NoPass == [pc |-> "idle", current |-> 0, messages |-> << >>, sender |-> 0]
NoRetry == [retry_count |-> [i \in RetryIds |-> -1],
            issuer |-> [i \in RetryIds |-> 0],
            queue |-> {}, store |-> {}, retryTimer |-> TRUE,
            pass |-> [t \in TaskIds |-> NoPass],
            delivered |-> [i \in RetryIds |-> 0],
            cleared |-> {}]
libVars == <<localChats, localMessages>>

\* this.pendingMessages maps a message id to a PendingMessage.  The ids are
\* fresh (Date.now() and Math.random()) and nothing reads created_at, so the
\* queue is the number of entries of each kind: chat, content and
\* retry_count.  A number above MaxCopies is kept as MaxCopies.
EntryKinds == [chat_id : ChatIds \cup LibChatIds, content : Plaintexts, retry_count : 0..MaxRetries]
\* a queue maps the kinds of entries it holds to their number
NoPending == [k \in {} |-> 0]
Held(queue, k) == IF k \in DOMAIN queue THEN queue[k] ELSE 0
QueueOf(count) == [k \in { j \in DOMAIN count : count[j] > 0 } |-> count[k]]

\* a Chat of this.chats (src/lib/chat.ts lines 7-17) and the Message
\* objects of this.messages, counted by content
NoLocalChat == [present |-> FALSE, is_group |-> FALSE, created_by |-> 0, participants |-> {},
                last_message |-> Undefined]
NoLocalChats == [c \in LibChatIds |-> NoLocalChat]
NoLocalMessages == [c \in LibChatIds |-> [m \in Plaintexts |-> 0]]

NoCall == [op |-> "none"]

\* a broadcast payload (part_004 lines 286-292); origin is not on the wire, it
\* records who built the payload
Payload(chatId, enc, senderPublicKey, origin) ==
  [chat_id |-> chatId, encrypted_content |-> enc, sender_public_key |-> senderPublicKey,
   origin |-> origin]

remoteVars == <<chats, chat_participants, group_keys, cached, faults, calls>>

\* ------------------------------------------------ EncryptionManager as an API
\* One EncryptionManager (device Me) driven by arbitrary calls; the public keys
\* passed to it are its own and one peer's.
Me == CHOOSE u \in Users : \A v \in Users : u <= v
Peer == CHOOSE u \in Users \ {Me} : \A v \in Users \ {Me} : u <= v
ApiChatIds == {1}
ApiPublicKeys == {PublicKeyOf(Me), PublicKeyOf(Peer)}
ApiKeyLists == UNION { [1..n -> ApiPublicKeys] : n \in 0..MaxKeyList }

EncInit ==
  /\ keyPair = [u \in Users |-> NoKeyPair]
  /\ chatKeys = [u \in Users |-> NoChatKeys]
  /\ chats = << >>
  /\ chat_participants = {}
  /\ group_keys = {}
  /\ channel = {}
  /\ cached = {}
  /\ faults = FALSE
  /\ calls = 0
  /\ pendingMessages = [u \in Users |-> NoPending]
  /\ stored = [u \in Users |-> NoPending]
  /\ localChats = [u \in Users |-> NoLocalChats]
  /\ localMessages = [u \in Users |-> NoLocalMessages]
  /\ auth = NoAuth
  /\ tasks = NoTasks
  /\ retry = NoRetry
  /\ last = NoCall

ApiGenerateKeyPair ==
  /\ keyPair' = [keyPair EXCEPT ![Me] = KeyPairOf(Me)]
  /\ last' = [op |-> "generateKeyPair"]
  /\ UNCHANGED <<sessionVars, libVars, chatKeys, channel, remoteVars, queueVars>>

\* a clearKeys that forgets the key pair only
keepChatKeys(cks) == cks
\* clearKeys (part_003 lines 247-250): this.chatKeys.clear()
clearKeys(cks) == NoChatKeys

ApiClearKeys ==
  /\ keyPair' = [keyPair EXCEPT ![Me] = NoKeyPair]
  /\ chatKeys' = [chatKeys EXCEPT ![Me] = clearKeys(chatKeys[Me])]
  /\ last' = [op |-> "clearKeys"]
  /\ UNCHANGED <<sessionVars, libVars, channel, remoteVars, queueVars>>

ApiGenerateChatKey ==
  \E chatId \in ApiChatIds, keys \in ApiKeyLists, keyVersion \in 1..MaxKeyVersion :
    LET r == generateChatKey(keyPair[Me], chatKeys[Me], chatId, keys, keyVersion)
    IN /\ chatKeys' = [chatKeys EXCEPT ![Me] = r.chatKeys]
       /\ last' = [op |-> "generateChatKey", chatId |-> chatId, keys |-> keys,
                   keyVersion |-> keyVersion, err |-> r.err, error |-> r.error,
                   secret |-> r.secret]
       /\ UNCHANGED <<sessionVars, libVars, keyPair, channel, remoteVars, queueVars>>

ApiRotateChatKey ==
  \E chatId \in ApiChatIds, keys \in ApiKeyLists :
    /\ chatKeys[Me][chatId].keyVersion < MaxKeyVersion
    /\ LET r == rotateChatKey(keyPair[Me], chatKeys[Me], chatId, keys)
       IN /\ chatKeys' = [chatKeys EXCEPT ![Me] = r.chatKeys]
          /\ last' = [op |-> "rotateChatKey", err |-> r.err]
    /\ UNCHANGED <<sessionVars, libVars, keyPair, channel, remoteVars, queueVars>>

ApiEncryptMessage ==
  \E message \in Plaintexts, chatId \in ApiChatIds, keys \in ApiKeyLists :
    LET r == encryptMessage(keyPair[Me], chatKeys[Me], message, chatId, keys)
    IN /\ channel' = IF r.err THEN channel
                     ELSE {Payload(chatId, r.enc, keyPair[Me].publicKey, "encryptMessage")}
       /\ last' = [op |-> "encryptMessage", err |-> r.err, error |-> r.error]
       /\ UNCHANGED <<sessionVars, libVars, keyPair, chatKeys, remoteVars, queueVars>>

\* decryptMessage applied to the ciphertext of an earlier encryptMessage
ApiDecryptMessage ==
  \E p \in channel, senderPublicKey \in ApiPublicKeys \cup {0} :
   \E garbage \in GarbageFor(p.encrypted_content,
                   DecryptSecret(keyPair[Me], chatKeys[Me], p.chat_id, senderPublicKey).secret) :
    LET r == decryptMessage(keyPair[Me], chatKeys[Me], p.encrypted_content, p.chat_id,
                            senderPublicKey, garbage)
        sel == DecryptSecret(keyPair[Me], chatKeys[Me], p.chat_id, senderPublicKey)
    IN /\ last' = [op |-> "decryptMessage", payload |-> p,
                   selected |-> IF keyPair[Me] = NoKeyPair \/ sel.err THEN NoSecret ELSE sel.secret,
                   err |-> r.err, error |-> r.error, content |-> r.content]
       /\ channel' = {}
       /\ UNCHANGED <<sessionVars, libVars, keyPair, chatKeys, remoteVars, queueVars>>

ApiExportChatKeys ==
  LET r == exportChatKeys(keyPair[Me], chatKeys[Me])
  IN /\ last' = [op |-> "exportChatKeys", err |-> r.err, error |-> r.error]
     /\ UNCHANGED <<sessionVars, libVars, keyPair, chatKeys, channel, remoteVars, queueVars>>

\* the backups passed to importChatKeys: exported under the key pair of Me or
\* of Peer by a manager without chat keys or with those Me has now
ApiBackups ==
  { exportChatKeys(KeyPairOf(u), cks).enc : u \in {Me, Peer}, cks \in {NoChatKeys, chatKeys[Me]} }

ApiImportChatKeys ==
  \E encryptedKeys \in ApiBackups :
    LET r == importChatKeys(keyPair[Me], chatKeys[Me], encryptedKeys)
    IN /\ chatKeys' = [chatKeys EXCEPT ![Me] = r.chatKeys]
       /\ last' = [op |-> "importChatKeys", err |-> r.err, error |-> r.error]
       /\ UNCHANGED <<sessionVars, libVars, keyPair, channel, remoteVars, queueVars>>

\* the keys passed to encryptFile and decryptFile: omitted, empty, a key an
\* earlier generateFileKey made, the chat secret
ApiFileKeys == {NoFileKey, EmptyKey, FileKey(3)} \cup {chatKeys[Me][c].sharedSecret : c \in ApiChatIds}

ApiEncryptFile ==
  \E fileData \in Files, key \in ApiFileKeys, fresh \in FreshFileKeys :
    LET r == encryptFile(fileData, key, fresh)
    IN /\ last' = [op |-> "encryptFile", fileData |-> fileData, supplied |-> key,
                   err |-> r.err, encrypted |-> r.encrypted, key |-> r.key]
       /\ UNCHANGED <<sessionVars, libVars, keyPair, chatKeys, channel, remoteVars, queueVars>>

\* decryptFile applied to the result of the encryptFile call before it, with
\* the key that call returned or another one
ApiDecryptFile ==
  /\ last.op = "encryptFile"
  /\ \E key \in {last.key} \cup ApiFileKeys :
      \E garbage \in GarbageFor(last.encrypted, key) :
       LET r == decryptFile(last.encrypted, key, garbage)
       IN last' = [op |-> "decryptFile", fileData |-> last.fileData, supplied |-> last.supplied,
                   returned |-> last.key, key |-> key, err |-> r.err, data |-> r.data]
  /\ UNCHANGED <<sessionVars, libVars, keyPair, chatKeys, channel, remoteVars, queueVars>>

EncNext ==
  \/ ApiGenerateKeyPair
  \/ ApiClearKeys
  \/ ApiGenerateChatKey
  \/ ApiRotateChatKey
  \/ ApiEncryptMessage
  \/ ApiDecryptMessage
  \/ ApiExportChatKeys
  \/ ApiImportChatKeys

EncSpec == EncInit /\ [][EncNext]_vars

\* the file functions of a manager that generates its key pair and chat keys
FileNext ==
  \/ ApiGenerateKeyPair
  \/ ApiGenerateChatKey
  \/ ApiRotateChatKey
  \/ ApiEncryptFile
  \/ ApiDecryptFile

FileSpec == EncInit /\ [][FileNext]_vars

\* ---------------------------------------------- EncryptionManager properties

PermutationsOf(list) ==
  { [i \in 1..Len(list) |-> list[f[i]]] : f \in Permutations(1..Len(list)) }

\* C8. Group-secret order independence: for the local key pair, chat id and
\* key version of a generateChatKey call, every permutation of the list of
\* participant public keys passed gives the secret the call returned.
C8_OrderIndependence ==
  (last.op = "generateChatKey" /\ ~last.err) =>
    \A q \in PermutationsOf(last.keys) :
      generateChatKey(keyPair[Me], NoChatKeys, last.chatId, q, last.keyVersion).secret = last.secret

\* generateChatKey has returned for a list that is not in sorted order
C8_Witness ==
  /\ last.op = "generateChatKey" /\ ~last.err
  /\ Len(last.keys) = 2
  /\ last.keys[1] > last.keys[2]
  /\ last.secret = chatKeys[Me][last.chatId].sharedSecret

\* C9. Round trip: decryptMessage applied to the output of encryptMessage of
\* the same EncryptionManager, when it selects the secret encryptMessage
\* selected, returns the plaintext that was encrypted and raises no error.
C9_RoundTrip ==
  (/\ last.op = "decryptMessage"
   /\ last.payload.origin = "encryptMessage"
   /\ last.selected = last.payload.encrypted_content.key) =>
     /\ ~last.err
     /\ last.content = last.payload.encrypted_content.text.body

\* the empty plaintext has made the round trip under a cached chat key
C9_Witness ==
  /\ last.op = "decryptMessage"
  /\ last.selected = last.payload.encrypted_content.key
  /\ last.selected.alg = "PBKDF2"
  /\ ~last.err
  /\ last.content = Str("")

\* the calls that need the key pair
KeyedCalls == {"encryptMessage", "decryptMessage", "generateChatKey", "exportChatKeys",
               "importChatKeys"}

\* C22. Without a key pair, initially or after clearKeys, each of
\* encryptMessage, decryptMessage, generateChatKey, exportChatKeys and
\* importChatKeys throws 'Key pair not initialized' and leaves the key pair
\* and the chat keys as they were.
C22_NotInitialized ==
  [][(keyPair[Me] = NoKeyPair /\ last'.op \in KeyedCalls)
       => /\ last'.err
          /\ last'.error = "Key pair not initialized"
          /\ keyPair' = keyPair
          /\ chatKeys' = chatKeys]_vars

\* after clearKeys, a backup exported under the key pair the manager had
\* has been refused
C22_Witness ==
  /\ keyPair[Me] = NoKeyPair
  /\ last.op = "importChatKeys"
  /\ last.error = "Key pair not initialized"
  /\ channel # {}

\* C30. An inbound envelope is decrypted with the key version it was
\* encrypted under: a receiver whose chat key has advanced to version v + 1
\* still decrypts a message that was encrypted under version v.
C30_DecryptUnderEnvelopeVersion ==
  (/\ last.op = "decryptMessage"
   /\ keyPair[Me] # NoKeyPair
   /\ last.payload.encrypted_content.key.alg = "PBKDF2"
   /\ chatKeys[Me][last.payload.chat_id].present
   /\ chatKeys[Me][last.payload.chat_id].keyVersion
        = last.payload.encrypted_content.key.keyVersion + 1)
  => /\ last.selected = last.payload.encrypted_content.key
     /\ ~last.err
     /\ last.content = last.payload.encrypted_content.text.body

\* C32. Key versions are monotonic in the cache: for every chat the
\* keyVersion of the cached entry never decreases over generateChatKey,
\* getChatKey, rotateChatKey and importChatKeys calls; only clearKeys resets
\* it.
C32_CachedVersionMonotonic ==
  [][last'.op # "clearKeys" =>
       \A c \in ApiChatIds :
         chatKeys'[Me][c].keyVersion >= chatKeys[Me][c].keyVersion]_vars

\* C26. File round trip: for every file F, the empty one included,
\* decryptFile(r.encrypted, r.key) returns F where r is what encryptFile
\* returned for F; r.key is the key supplied when one was supplied, and a
\* freshly generated key, not the chat secret, when none was.
C26_FileRoundTrip ==
  /\ (last.op = "decryptFile" /\ last.key = last.returned) =>
        ~last.err /\ last.data = last.fileData
  /\ last.op = "encryptFile" =>
        /\ ~last.err
        /\ IF last.supplied = NoFileKey
           THEN /\ last.key \in FreshFileKeys
                /\ \A c \in ApiChatIds : last.key # chatKeys[Me][c].sharedSecret
           ELSE last.key = last.supplied

\* ------------------------------------------------------------- ChatManager
\* Every user is registered and logged in on a device of their own: the
\* device holds the key pair register generated, the profile row holds its
\* public key (src/lib/auth.ts, register).
profiles == [u \in Users |-> [id |-> u, public_key |-> PublicKeyOf(u)]]

Init ==
  /\ keyPair = [u \in Users |-> KeyPairOf(u)]
  /\ chatKeys = [u \in Users |-> NoChatKeys]
  /\ chats = << >>
  /\ chat_participants = {}
  /\ group_keys = {}
  /\ channel = {}
  /\ cached = {}
  /\ faults = TRUE
  /\ calls = 0
  /\ pendingMessages = [u \in Users |-> NoPending]
  /\ stored = [u \in Users |-> NoPending]
  /\ localChats = [u \in Users |-> NoLocalChats]
  /\ localMessages = [u \in Users |-> NoLocalMessages]
  /\ auth = NoAuth
  /\ tasks = NoTasks
  /\ retry = NoRetry
  /\ last = NoCall

\* the rows of a select come back in the order of the user ids
RECURSIVE SeqOfSet(_)
SeqOfSet(S) ==
  IF S = {} THEN << >>
  ELSE LET x == CHOOSE x \in S : \A y \in S : x <= y
       IN <<x>> \o SeqOfSet(S \ {x})

PublicKeysOf(userIds) == LET ids == SeqOfSet(userIds)
                         IN [i \in 1..Len(ids) |-> profiles[ids[i]].public_key]

RowsOf(chatId) == { r \in chat_participants : r.chat_id = chatId }
\* .eq('chat_id', chatId).is('left_at', null)
ActiveMembers(chatId) == { r.user_id : r \in { q \in RowsOf(chatId) : ~q.left_at } }
\* .eq('chat_id', chatId).neq('user_id', currentUser.id)
OtherMembers(chatId, userId) == { r.user_id : r \in RowsOf(chatId) } \ {userId}
\* .select('role').eq('chat_id', chatId).eq('user_id', currentUser.id).single()
\* a role check that passes for every participant
IsParticipant(chatId, userId) ==
  \E r \in RowsOf(chatId) : r.user_id = userId
IsAdmin(chatId, userId) ==
  \E r \in RowsOf(chatId) : r.user_id = userId /\ r.role = "admin"

ParticipantRow(chatId, userId, role) ==
  [chat_id |-> chatId, user_id |-> userId, role |-> role, left_at |-> FALSE]

\* UNIQUE(chat_id, user_id) on chat_participants
ParticipantConflict(chatId, userId) == \E r \in RowsOf(chatId) : r.user_id = userId

GroupKeyRow(chatId, keyVersion, userId, enc) ==
  [chat_id |-> chatId, key_version |-> keyVersion, user_id |-> userId, encrypted_key |-> enc]

\* UNIQUE(chat_id, key_version, user_id) on group_keys: the insert of a list
\* of rows fails as a whole when one of them collides
GroupKeyConflict(rows) ==
  \E n \in rows, o \in group_keys :
    n.chat_id = o.chat_id /\ n.key_version = o.key_version /\ n.user_id = o.user_id

\* the per-member entries: the group key encrypted for each member
GroupKeyEntries(kp, cks, chatId, keyVersion, groupKey, userIds) ==
  { GroupKeyRow(chatId, keyVersion, id,
                encryptMessage(kp, cks, KeyStr(groupKey), chatId,
                               <<profiles[id].public_key>>).enc) : id \in userIds }

Remember(u, chatId, cks) ==
  IF cks[chatId].present
  THEN cached \cup {[user |-> u, chat_id |-> chatId, sharedSecret |-> cks[chatId].sharedSecret,
                     keyVersion |-> cks[chatId].keyVersion]}
  ELSE cached

\* generateGroupKey (part_004 lines 193-218): the new chatKeys of the caller
\* and the rows it inserts
generateGroupKey(u, chatId, participantIds, fail) ==
  IF fail = "profiles" THEN [chatKeys |-> chatKeys[u], rows |-> {}, derived |-> FALSE]
  ELSE LET g == generateChatKey(keyPair[u], chatKeys[u], chatId, PublicKeysOf(participantIds), 1)
           entries == GroupKeyEntries(keyPair[u], g.chatKeys, chatId, 1, g.secret, participantIds)
       IN IF g.err THEN [chatKeys |-> chatKeys[u], rows |-> {}, derived |-> FALSE]
          ELSE [chatKeys |-> g.chatKeys,
                rows |-> IF fail = "group_keys" \/ GroupKeyConflict(entries) THEN {} ELSE entries,
                derived |-> TRUE]

\* every call a user makes (createChat, a membership call, sendMessage) counts
\* against the bound
Called == calls < MaxCalls /\ calls' = calls + 1

CreateFailures == {"none", "chats", "chat_participants", "profiles", "group_keys"}

\* createChat (part_004 lines 149-190)
CreateChat(u) ==
  \E participantIds \in SUBSET Users, isGroup \in BOOLEAN, fail \in CreateFailures :
    /\ Len(chats) < MaxChats
    /\ Called
    /\ fail \in {"profiles", "group_keys"} => isGroup
    /\ fail # "none" => faults
    /\ LET chatId == Len(chats) + 1
           chat == [is_group |-> isGroup, created_by |-> u, group_key_version |-> 1]
           participants == {ParticipantRow(chatId, u, "admin")}
                             \cup {ParticipantRow(chatId, id, "member") : id \in participantIds}
           g == generateGroupKey(u, chatId, participantIds, fail)
       IN IF fail = "chats"
          THEN /\ last' = [op |-> "createChat", user |-> u, ok |-> FALSE]
               /\ UNCHANGED <<sessionVars, libVars, keyPair, chatKeys, chats, chat_participants, group_keys, channel, cached, faults, queueVars>>
          ELSE IF fail = "chat_participants" \/ u \in participantIds
          THEN /\ chats' = Append(chats, chat)
               /\ last' = [op |-> "createChat", user |-> u, ok |-> FALSE]
               /\ UNCHANGED <<sessionVars, libVars, keyPair, chatKeys, chat_participants, group_keys, channel, cached, faults, queueVars>>
          ELSE IF ~isGroup
          THEN /\ chats' = Append(chats, chat)
               /\ chat_participants' = chat_participants \cup participants
               /\ last' = [op |-> "createChat", user |-> u, ok |-> TRUE, chatId |-> chatId,
                           isGroup |-> FALSE, derived |-> FALSE]
               /\ UNCHANGED <<sessionVars, libVars, keyPair, chatKeys, group_keys, channel, cached, faults, queueVars>>
          ELSE /\ chats' = Append(chats, chat)
               /\ chat_participants' = chat_participants \cup participants
               /\ chatKeys' = [chatKeys EXCEPT ![u] = g.chatKeys]
               /\ group_keys' = group_keys \cup g.rows
               /\ cached' = Remember(u, chatId, g.chatKeys)
               /\ last' = [op |-> "createChat", user |-> u, ok |-> TRUE, chatId |-> chatId,
                           isGroup |-> TRUE, derived |-> g.derived]
               /\ UNCHANGED <<sessionVars, libVars, keyPair, channel, faults, queueVars>>

\* rotate_group_key(chat_uuid): UPDATE chats SET group_key_version =
\* group_key_version + 1 WHERE id = chat_uuid AND is_group = true
rotate_group_key(chatRows, chatId) ==
  IF chatRows[chatId].is_group
  THEN [chatRows EXCEPT ![chatId].group_key_version = @ + 1]
  ELSE chatRows

RotateFailures == {"rpc", "chat_participants", "chats", "group_keys"}

\* rotateGroupKey (part_004 lines 465-511) run by u with the chat_participants
\* table as it is after the membership change; fail names the remote call
\* that does not go through, if any.  The result: the chats table, the
\* caller's chatKeys and the group_keys rows inserted.
rotateGroupKey(u, chatId, rowsNow, fail) ==
  LET chats1 == IF fail = "rpc" THEN chats ELSE rotate_group_key(chats, chatId)
      active == { r.user_id : r \in { q \in rowsNow : q.chat_id = chatId /\ ~q.left_at } }
      g == rotateChatKey(keyPair[u], chatKeys[u], chatId, PublicKeysOf(active))
      entries == GroupKeyEntries(keyPair[u], g.chatKeys, chatId,
                                 chats1[chatId].group_key_version, g.secret, active)
  IN IF fail = "chat_participants" \/ g.err
     THEN [chats |-> chats1, chatKeys |-> chatKeys[u], rows |-> {}, derived |-> FALSE]
     ELSE IF fail = "chats"
     THEN [chats |-> chats1, chatKeys |-> g.chatKeys, rows |-> {}, derived |-> TRUE]
     ELSE [chats |-> chats1, chatKeys |-> g.chatKeys,
           rows |-> IF fail = "group_keys" \/ GroupKeyConflict(entries) THEN {} ELSE entries,
           derived |-> TRUE]

\* what a membership change leaves behind, given the table after the change
MembershipChange(op, u, chatId, userId, rowsNow, fail) ==
  LET r == rotateGroupKey(u, chatId, rowsNow, fail)
  IN /\ chat_participants' = rowsNow
     /\ chats' = r.chats
     /\ chatKeys' = [chatKeys EXCEPT ![u] = r.chatKeys]
     /\ group_keys' = group_keys \cup r.rows
     /\ cached' = IF r.derived THEN Remember(u, chatId, r.chatKeys) ELSE cached
     /\ last' = [op |-> op, user |-> u, ok |-> TRUE, chatId |-> chatId, userId |-> userId,
                 failed |-> fail \in RotateFailures, derived |-> r.derived]
     /\ UNCHANGED <<sessionVars, libVars, keyPair, channel, faults, queueVars>>

NotAllowed(op, u, chatId, userId) ==
  /\ last' = [op |-> op, user |-> u, ok |-> FALSE, chatId |-> chatId]
  /\ UNCHANGED <<sessionVars, libVars, keyPair, chatKeys, chats, chat_participants, group_keys, channel, cached, faults, queueVars>>

\* the remote call of a membership change that does not go through: the
\* select of the caller's role, the insert or update of the member's row, or
\* one of the calls of rotateGroupKey
MemberFailures == {"none", "role", "member"} \cup RotateFailures

\* addGroupMember (part_004 lines 399-430)
AddGroupMember(u) ==
  \E chatId \in 1..Len(chats), userId \in Users, fail \in MemberFailures :
    /\ Called
    /\ fail # "none" => faults
    /\ IF fail = "role" \/ ~IsAdmin(chatId, u)
       THEN NotAllowed("addGroupMember", u, chatId, userId)
       ELSE MembershipChange("addGroupMember", u, chatId, userId,
              IF fail = "member" \/ ParticipantConflict(chatId, userId)
              THEN chat_participants
              ELSE chat_participants \cup {ParticipantRow(chatId, userId, "member")},
              fail)

\* removeGroupMember (part_004 lines 433-462)
RemoveGroupMember(u) ==
  \E chatId \in 1..Len(chats), userId \in Users, fail \in MemberFailures :
    /\ Called
    /\ fail # "none" => faults
    /\ IF fail = "role" \/ ~IsAdmin(chatId, u)
       THEN NotAllowed("removeGroupMember", u, chatId, userId)
       ELSE MembershipChange("removeGroupMember", u, chatId, userId,
              IF fail = "member"
              THEN chat_participants
              ELSE { IF r.chat_id = chatId /\ r.user_id = userId
                     THEN [r EXCEPT !.left_at = TRUE] ELSE r : r \in chat_participants },
              fail)

\* ------------------------------------------------------ the pending queue
\* the PendingMessage the catch block of sendMessage builds
RetriedEntry(chatId, content) == [chat_id |-> chatId, content |-> content, retry_count |-> 1]
PendingMessage(chatId, content) == [chat_id |-> chatId, content |-> content, retry_count |-> 0]

AtMostCopies(n) == IF n > MaxCopies THEN MaxCopies ELSE n

\* this.pendingMessages.set(id, entry) for n fresh ids
SetPending(queue, kind, n) ==
  QueueOf([k \in DOMAIN queue \cup {kind} |->
             IF k = kind THEN AtMostCopies(Held(queue, k) + n) ELSE queue[k]])

\* the number of entries of the given kinds
SumOf(queue, kinds) ==
  Cardinality(UNION { { <<k, i>> : i \in 1..Held(queue, k) } : k \in kinds })

\* getPendingMessagesCount(): this.pendingMessages.size
getPendingMessagesCount(queue) == SumOf(queue, DOMAIN queue)

SendFailures == {"none", "chat_participants", "messages"}

\* the try block of sendMessage (part_004 lines 235-310) for a text message:
\* whether it returns, and the payload it broadcasts
sendMessage(u, chatId, content, fail) ==
  LET participantKeys == PublicKeysOf(OtherMembers(chatId, u))
      e == encryptMessage(keyPair[u], chatKeys[u], content, chatId, participantKeys)
  IN [ok |-> fail = "none" /\ ~e.err,
      enc |-> e.enc,
      payload |-> Payload(chatId, e.enc, profiles[u].public_key, "sendMessage")]

\* sendMessage (part_004 lines 221-329) called by the user, text messages
SendMessage(u) ==
  \E chatId \in 1..Len(chats), content \in Plaintexts, fail \in SendFailures :
    LET r == sendMessage(u, chatId, content, fail)
        queue == SetPending(pendingMessages[u], PendingMessage(chatId, content), 1)
    IN /\ Cardinality(channel) < MaxInFlight
       /\ Called
       /\ fail # "none" => faults
       /\ IF r.ok
          THEN /\ channel' = channel \cup {r.payload}
               /\ UNCHANGED queueVars
          ELSE /\ pendingMessages' = [pendingMessages EXCEPT ![u] = queue]
               /\ stored' = [stored EXCEPT ![u] = queue]
               /\ UNCHANGED channel
       /\ last' = [op |-> "sendMessage", user |-> u, ok |-> r.ok, chatId |-> chatId,
                   content |-> content, thrown |-> ~r.ok]
       /\ UNCHANGED <<sessionVars, libVars, keyPair, chatKeys, chats, chat_participants, group_keys, cached, faults>>

\* sendMessage with a message type and file data (part_004 lines 221-329)
MessageTypes == {"text", "file"}
\* fileData: omitted, or the contents of a file
FileDatas == {Undefined} \cup Files
\* "if (fileData ...": undefined and the empty string are falsy
Truthy(fileData) == fileData \notin {Undefined, Str("")}
\* fileData.length
LengthOf(fileData) == IF fileData = Str("file") THEN 4 ELSE 0
\* the fileName passed with a file
FileNameOf(fileData) == IF fileData = Undefined THEN Undefined ELSE Str("name")

\* the row inserted in messages (lines 268-275)
MessageRow(u, chatId, messageType, fileData) ==
  [table |-> "messages", chat_id |-> chatId, sender_id |-> u, message_type |-> messageType,
   file_name |-> FileNameOf(fileData),
   file_size |-> IF Truthy(fileData) THEN LengthOf(fileData) ELSE 0]

\* the rows inserted in message_status (lines 295-301)
StatusEntries(u, chatId) ==
  { [table |-> "message_status", user_id |-> p, status |-> "sent"] : p \in OtherMembers(chatId, u) }

\* the payload of a message with a file (lines 283-293)
FilePayload(payload, fileEncryption) ==
  [chat_id |-> payload.chat_id, encrypted_content |-> payload.encrypted_content,
   sender_public_key |-> payload.sender_public_key, origin |-> payload.origin,
   encrypted_file |-> fileEncryption.encrypted, file_key |-> fileEncryption.key]

\* sendMessage called with any message type and file data; rows and broadcast
\* are what the call sent to the remote store and to the channel.  The queue
\* of this model does not record the file_data of an entry.
SendMessageOfType(u) ==
  \E chatId \in 1..Len(chats), content \in Plaintexts, messageType \in MessageTypes,
     fileData \in FileDatas, fresh \in FreshFileKeys, fail \in SendFailures :
    LET r == sendMessage(u, chatId, content, fail)
        encrypted == sendMessage(u, chatId, content, "none").ok
        hasFile == Truthy(fileData) /\ messageType # "text"
        payload == IF hasFile THEN FilePayload(r.payload, encryptFile(fileData, NoFileKey, fresh))
                   ELSE r.payload
        rows == IF fail = "chat_participants" \/ ~encrypted THEN {}
                ELSE {MessageRow(u, chatId, messageType, fileData)}
                     \cup (IF r.ok THEN StatusEntries(u, chatId) ELSE {})
        queue == SetPending(pendingMessages[u], PendingMessage(chatId, content), 1)
    IN /\ Cardinality(channel) < MaxInFlight
       /\ Called
       /\ fail # "none" => faults
       /\ ~hasFile => fresh = FileKey(1)
       /\ IF r.ok
          THEN /\ channel' = channel \cup {payload}
               /\ UNCHANGED queueVars
          ELSE /\ pendingMessages' = [pendingMessages EXCEPT ![u] = queue]
               /\ stored' = [stored EXCEPT ![u] = queue]
               /\ UNCHANGED channel
       /\ last' = [op |-> "sendMessage", user |-> u, ok |-> r.ok, chatId |-> chatId,
                   content |-> content, messageType |-> messageType, fileData |-> fileData,
                   rows |-> rows, broadcast |-> IF r.ok THEN {payload} ELSE {}]
       /\ UNCHANGED <<sessionVars, libVars, keyPair, chatKeys, chats, chat_participants, group_keys, cached, faults>>

\* the entries a retry pass calls sendMessage for, and those it deletes
\* because their retries are used up
AttemptedWithoutCeiling(queue) == DOMAIN queue
Attempted(queue) == { k \in DOMAIN queue : k.retry_count < MaxRetries }
Exhausted(queue) == { k \in DOMAIN queue : k.retry_count >= MaxRetries }

Retried(k) == [k EXCEPT !.retry_count = @ + 1]
Request(k) == [chat_id |-> k.chat_id, content |-> k.content]

\* the queue a pass of retryPendingMessages (part_004 lines 118-146) leaves,
\* given the kinds of entries whose sendMessage threw.  A sendMessage that
\* throws has put a new entry for the same request in the queue (lines
\* 311-325) before the pass increments retry_count of the one it retried.
QueueAfterRetry(queue, failed) ==
  QueueOf([k \in EntryKinds |->
     IF k.retry_count = 0
     THEN AtMostCopies(SumOf(queue, { f \in failed : Request(f) = Request(k) }))
     ELSE IF \E f \in failed : Retried(f) = k
          THEN queue[CHOOSE f \in failed : Retried(f) = k]
          ELSE 0])

\* One tick of the timer of startRetryMechanism on device u.  While remote
\* calls may fail, the remote store is out of reach for the whole pass or
\* answers all of it.  Consecutive passes are told apart by last.pass.
RetryPendingMessages(u) ==
  LET queue == pendingMessages[u]
      attempted == Attempted(queue)
      mustFail == { k \in attempted : ~sendMessage(u, k.chat_id, k.content, "none").ok }
  IN \E failed \in {mustFail, attempted} :
      /\ failed # mustFail => faults
      /\ last' = [op |-> "retry", user |-> u,
                  pass |-> IF last.op = "retry" THEN 1 - last.pass ELSE 0,
                  attempted |-> { k.retry_count : k \in attempted },
                  published |-> { Request(k) : k \in attempted \ failed },
                  dropped |-> SumOf(queue, Exhausted(queue))]
      /\ pendingMessages' = [pendingMessages EXCEPT ![u] = QueueAfterRetry(queue, failed)]
      /\ stored' = [stored EXCEPT ![u] = pendingMessages'[u]]
      /\ \E kept \in SUBSET (channel \cup { sendMessage(u, k.chat_id, k.content, "none").payload :
                                             k \in attempted \ failed }) :
           /\ Cardinality(kept) <= MaxInFlight
           /\ channel' = kept
      /\ UNCHANGED <<sessionVars, libVars, keyPair, chatKeys, chats, chat_participants, group_keys, cached, faults, calls>>

\* The process on device u stops and a new one starts: EncryptionManager and
\* ChatManager are constructed anew (part_004 lines 68-72), loginWithSession
\* restores the key pair (src/lib/auth.ts lines 203-238), AsyncStorage stays.
Restart(u) ==
  /\ pendingMessages' = [pendingMessages EXCEPT ![u] = NoPending]
  /\ chatKeys' = [chatKeys EXCEPT ![u] = NoChatKeys]
  /\ last' = [op |-> "restart", user |-> u]
  /\ UNCHANGED <<sessionVars, libVars, keyPair, chats, chat_participants, group_keys, channel, cached, faults, calls, stored>>

\* from here on the transport and the remote store accept every request
Heal ==
  /\ faults
  /\ faults' = FALSE
  /\ last' = [op |-> "heal"]
  /\ UNCHANGED <<sessionVars, libVars, keyPair, chatKeys, chats, chat_participants, group_keys, channel, cached, calls, queueVars>>

\* the transport does not keep a broadcast
DropPayload ==
  \E p \in channel :
    /\ channel' = channel \ {p}
    /\ last' = [op |-> "drop"]
    /\ UNCHANGED <<sessionVars, libVars, keyPair, chatKeys, chats, chat_participants, group_keys, cached, faults, calls, queueVars>>

\* A secret that can be computed from public data alone: the public keys in
\* the profiles table, the chat ids and the version numbers.
PublicData == { profiles[u].public_key : u \in Users }
DerivableFrom(secret, privateKeys, secrets) ==
  \/ secret \in secrets
  \/ /\ secret.alg = "PBKDF2"
     /\ \A i \in 1..Len(secret.keys) : secret.keys[i] \in PublicData
  \/ /\ secret.alg = "SHA256"
     /\ secret.keys[1] \in privateKeys
     /\ secret.keys[2] \in PublicData

\* Payloads that reach a subscriber without sendMessage having built them:
\* bytes corrupted in transit, and a ciphertext made by someone who watches
\* the channel and computes a chat key from public data.
ForgedPayloads(chatId) ==
  {Payload(chatId, AESencrypt(JSONstringify(Str("hello")), NoSecret), profiles[1].public_key,
           "corrupted")}
  \cup { Payload(chatId, AESencrypt(JSONstringify(Str("forged")), k.sharedSecret),
                 profiles[CHOOSE s \in Users : s # k.user].public_key, "forged")
         : k \in { c \in cached : /\ c.chat_id = chatId
                                   /\ chatKeys[c.user][chatId].sharedSecret = c.sharedSecret
                                   /\ DerivableFrom(c.sharedSecret, {}, {}) } }

\* the 'new_message' handler of subscribeToChat (part_004 lines 514-558) on
\* device u, for a payload without a file
Deliver(u) ==
  \E chatId \in 1..Len(chats) :
    \E p \in { q \in channel : q.chat_id = chatId } \cup ForgedPayloads(chatId) :
     \E garbage \in GarbageFor(p.encrypted_content,
                     DecryptSecret(keyPair[u], chatKeys[u], chatId, p.sender_public_key).secret) :
      LET d == decryptMessage(keyPair[u], chatKeys[u], p.encrypted_content, chatId,
                              p.sender_public_key, garbage)
          sel == DecryptSecret(keyPair[u], chatKeys[u], chatId, p.sender_public_key)
      IN /\ p.sender_public_key # profiles[u].public_key
         /\ last' = [op |-> "deliver", user |-> u, payload |-> p,
                     selected |-> IF sel.err THEN NoSecret ELSE sel.secret,
                     onMessage |-> ~d.err, content |-> d.content]
         /\ UNCHANGED <<sessionVars, libVars, keyPair, chatKeys, chats, chat_participants, group_keys, channel, cached, faults, calls, queueVars>>

\* the group-key life cycle, with remote calls that may fail
Next ==
  \/ \E u \in Users : CreateChat(u)
  \/ \E u \in Users : AddGroupMember(u)
  \/ \E u \in Users : RemoveGroupMember(u)

Spec == Init /\ [][Next]_vars

\* messaging over a remote store that answers every call
MsgInit ==
  /\ keyPair = [u \in Users |-> KeyPairOf(u)]
  /\ chatKeys = [u \in Users |-> NoChatKeys]
  /\ chats = << >>
  /\ chat_participants = {}
  /\ group_keys = {}
  /\ channel = {}
  /\ cached = {}
  /\ faults = FALSE
  /\ calls = 0
  /\ pendingMessages = [u \in Users |-> NoPending]
  /\ stored = [u \in Users |-> NoPending]
  /\ localChats = [u \in Users |-> NoLocalChats]
  /\ localMessages = [u \in Users |-> NoLocalMessages]
  /\ auth = NoAuth
  /\ tasks = NoTasks
  /\ retry = NoRetry
  /\ last = NoCall

MsgNext ==
  \/ \E u \in Users : CreateChat(u)
  \/ \E u \in Users : AddGroupMember(u)
  \/ \E u \in Users : RemoveGroupMember(u)
  \/ \E u \in Users : SendMessage(u)
  \/ \E u \in Users : Deliver(u)
  \/ DropPayload

MsgSpec == MsgInit /\ [][MsgNext]_vars

\* what sendMessage puts on the wire, over a remote store that may fail
WireNext ==
  \/ \E u \in Users : CreateChat(u)
  \/ \E u \in Users : SendMessageOfType(u)
  \/ DropPayload

WireSpec == Init /\ [][WireNext]_vars

\* The pending queue of one device: the sends of its user that fail, its
\* retry timer, its restarts.  The chats are created by any user.
Sender == CHOOSE u \in Users : \A v \in Users : u <= v

QueueInit ==
  /\ keyPair = [u \in Users |-> KeyPairOf(u)]
  /\ chatKeys = [u \in Users |-> NoChatKeys]
  /\ chats = << >>
  /\ chat_participants = {}
  /\ group_keys = {}
  /\ channel = {}
  /\ cached = {}
  /\ faults = TRUE
  /\ calls = 0
  /\ pendingMessages = [u \in Users |-> NoPending]
  /\ stored = [u \in Users |-> NoPending]
  /\ localChats = [u \in Users |-> NoLocalChats]
  /\ localMessages = [u \in Users |-> NoLocalMessages]
  /\ auth = NoAuth
  /\ tasks = NoTasks
  /\ retry = NoRetry
  /\ last = NoCall

QueueNext ==
  \/ \E u \in Users : CreateChat(u)
  \/ SendMessage(Sender)
  \/ RetryPendingMessages(Sender)
  \/ Restart(Sender)
  \/ DropPayload
  \/ Heal

QueueSpec == QueueInit /\ [][QueueNext]_vars

\* setInterval runs the retry pass every 30 seconds for as long as the
\* process lives
QueueLiveSpec ==
  QueueInit /\ [][QueueNext]_vars /\ WF_vars(RetryPendingMessages(Sender))

\* ------------------------------------------- membership calls, step by step
\* addGroupMember and removeGroupMember are async functions: between two of
\* their awaits another call of the same ChatManager may run.  The admin's
\* device (Sender) creates chat 1 and makes up to two membership calls on it, task 1 being
\* the one that starts first; each step below is the code from one await to
\* the next.
RotChat == 1
Running(t) == tasks[t].pc \notin {"idle", "done"}
MemberOps == {"addGroupMember", "removeGroupMember"}

StepDone(t, pc) == last' = [op |-> tasks[t].op, task |-> t, pc |-> pc]

\* the call starts: "const currentUser = this.authManager.getCurrentUser()"
\* and the select of the caller's role is sent
Begin(t) ==
  \E op \in MemberOps, userId \in Users :
    /\ tasks[t].pc = "idle"
    /\ \A o \in TaskIds : o < t => tasks[o].pc # "idle"
    /\ Len(chats) >= RotChat
    /\ LET overlaps == \E o \in TaskIds \ {t} : Running(o)
       IN tasks' = [o \in TaskIds |->
                     IF o = t THEN [NoTask EXCEPT !.pc = "role", !.op = op, !.userId = userId,
                                                  !.overlapped = overlaps]
                     ELSE IF Running(o) THEN [tasks[o] EXCEPT !.overlapped = TRUE]
                     ELSE tasks[o]]
    /\ last' = [op |-> op, task |-> t, pc |-> "role"]
    /\ UNCHANGED <<libVars, auth, retry, keyPair, chatKeys, channel, remoteVars, queueVars>>

\* the role arrives (part_004 lines 405-415, 439-449); the insert or the
\* update of the member's row is sent
CheckRole(t) ==
  /\ tasks[t].pc = "role"
  /\ LET pc == IF IsAdmin(RotChat, Sender) THEN "member" ELSE "done"
     IN /\ tasks' = [tasks EXCEPT ![t].pc = pc]
        /\ StepDone(t, pc)
  /\ UNCHANGED <<libVars, auth, retry, keyPair, chatKeys, channel, remoteVars, queueVars>>

\* the member's row is written (lines 417-424, 451-456); rotateGroupKey
\* starts and sends the rpc
ChangeMember(t) ==
  /\ tasks[t].pc = "member"
  /\ chat_participants' =
       IF tasks[t].op = "addGroupMember"
       THEN IF ParticipantConflict(RotChat, tasks[t].userId) THEN chat_participants
            ELSE chat_participants \cup {ParticipantRow(RotChat, tasks[t].userId, "member")}
       ELSE { IF r.chat_id = RotChat /\ r.user_id = tasks[t].userId
              THEN [r EXCEPT !.left_at = TRUE] ELSE r : r \in chat_participants }
  /\ tasks' = [tasks EXCEPT ![t].pc = "rpc"]
  /\ StepDone(t, "rpc")
  /\ UNCHANGED <<libVars, auth, retry, keyPair, chatKeys, chats, group_keys, channel, cached, faults, calls, queueVars>>

\* rotate_group_key runs in the database (line 468); the select of the
\* active participants is sent
RotateRpc(t) ==
  /\ tasks[t].pc = "rpc"
  /\ chats' = rotate_group_key(chats, RotChat)
  /\ tasks' = [tasks EXCEPT ![t].pc = "participants"]
  /\ StepDone(t, "participants")
  /\ UNCHANGED <<libVars, auth, retry, keyPair, chatKeys, chat_participants, group_keys, channel, cached, faults, calls, queueVars>>

\* the active participants arrive and rotateChatKey makes the new key (lines
\* 471-485); the select of group_key_version is sent
ReadParticipants(t) ==
  /\ tasks[t].pc = "participants"
  /\ LET active == ActiveMembers(RotChat)
         g == rotateChatKey(keyPair[Sender], chatKeys[Sender], RotChat, PublicKeysOf(active))
     IN IF g.err
        THEN /\ tasks' = [tasks EXCEPT ![t].pc = "done"]
             /\ StepDone(t, "done")
             /\ UNCHANGED <<chatKeys, cached>>
        ELSE /\ chatKeys' = [chatKeys EXCEPT ![Sender] = g.chatKeys]
             /\ cached' = Remember(Sender, RotChat, g.chatKeys)
             /\ tasks' = [tasks EXCEPT ![t].pc = "version", ![t].participants = active,
                                       ![t].newGroupKey = g.secret]
             /\ StepDone(t, "version")
  /\ UNCHANGED <<libVars, auth, retry, keyPair, chats, chat_participants, group_keys, channel, faults, calls, queueVars>>

\* group_key_version arrives and the entries are built (lines 488-506); the
\* insert in group_keys is sent
ReadVersion(t) ==
  /\ tasks[t].pc = "version"
  /\ tasks' = [tasks EXCEPT ![t].pc = "insert",
                 ![t].entries = GroupKeyEntries(keyPair[Sender], chatKeys[Sender], RotChat,
                                                chats[RotChat].group_key_version,
                                                tasks[t].newGroupKey, tasks[t].participants)]
  /\ StepDone(t, "insert")
  /\ UNCHANGED <<libVars, auth, retry, keyPair, chatKeys, channel, remoteVars, queueVars>>

\* the insert runs in the database (line 508) and the call returns
InsertKeys(t) ==
  /\ tasks[t].pc = "insert"
  /\ group_keys' = IF GroupKeyConflict(tasks[t].entries) THEN group_keys
                   ELSE group_keys \cup tasks[t].entries
  /\ tasks' = [tasks EXCEPT ![t].pc = "done"]
  /\ StepDone(t, "done")
  /\ UNCHANGED <<libVars, auth, retry, keyPair, chatKeys, chats, chat_participants, channel, cached, faults, calls, queueVars>>

RotNext ==
  \/ CreateChat(Sender)
  \/ \E u \in Users : SendMessage(u)
  \/ \E t \in TaskIds : Begin(t)
  \/ \E t \in TaskIds : CheckRole(t)
  \/ \E t \in TaskIds : ChangeMember(t)
  \/ \E t \in TaskIds : RotateRpc(t)
  \/ \E t \in TaskIds : ReadParticipants(t)
  \/ \E t \in TaskIds : ReadVersion(t)
  \/ \E t \in TaskIds : InsertKeys(t)

RotSpec == MsgInit /\ [][RotNext]_vars

\* ---------------------------------------------------------------- AuthManager
\* The AuthManager of src/lib/auth.ts on device Me, with the EncryptionManager
\* it shares with the ChatManager.  The other users stay logged in on their
\* own devices.

\* the usernames tried; validateUsername (lines 42-52) throws for a name of
\* fewer than 3 characters and for one with a character outside [a-zA-Z0-9_]
Usernames == {"al", "alice", "al ice"}
validateUsernameThrows(username) == username \in {"al", "al ice"}

\* a register that goes on after generateKeyPair has thrown
generateKeyPairIgnored(keyFails) == FALSE
\* generateKeyPair (part_003 lines 46-73) throws 'Failed to generate secure
\* encryption keys' when the random source or the hash fails
generateKeyPairThrows(keyFails) == keyFails

\* a profiles row with the private key in the place of the public key
ProfileRowWithPrivateKey(userId, kp) == [user_id |-> userId, public_key |-> kp.privateKey]
\* the row createProfileInDatabase inserts in profiles (lines 91-101)
ProfileRow(userId, kp) == [user_id |-> userId, public_key |-> kp.publicKey]

\* the profile createProfileInDatabase returns (lines 83-134): the row of the
\* database, or a local one when the insert did not go through
ProfileOf(userId, kp, dbFails) == [user_id |-> userId, public_key |-> kp.publicKey, mock |-> dbFails]

\* storeCredentials (lines 137-150)
storeCredentials(a, profile, privateKey) ==
  [a EXCEPT !.user_session = [profile |-> profile, expired |-> FALSE],
            !.private_key = privateKey,
            !.user_profile = profile]

\* the accounts made on device Me: generateKeyPair draws a new private key and
\* generateUniqueUserId a new id for each register, so an account is named by
\* its private key
Accounts == {Me, NumUsers + 1}

\* register (lines 168-200), the key pair generated being that of one of
\* privateKeys; fails is {FALSE} where the key generation, the database and
\* AsyncStorage do not fail
RegisterWith(privateKeys, fails) ==
  \E username \in Usernames, keyFails \in fails, dbFails \in fails, storeFails \in fails,
     privateKey \in privateKeys :
    LET kp == KeyPairOf(privateKey)
        profile == ProfileOf(privateKey, kp, dbFails)
        inserted == IF dbFails THEN auth.inserted ELSE auth.inserted \cup {ProfileRow(privateKey, kp)}
        failed == validateUsernameThrows(username) \/ generateKeyPairThrows(keyFails) \/ storeFails
    IN /\ IF validateUsernameThrows(username) \/ generateKeyPairThrows(keyFails)
          THEN UNCHANGED <<keyPair, auth>>
          ELSE IF storeFails
          THEN /\ keyPair' = [keyPair EXCEPT ![Me] = kp]
               /\ auth' = [auth EXCEPT !.inserted = inserted]
          ELSE /\ keyPair' = [keyPair EXCEPT ![Me] = kp]
               /\ auth' = [storeCredentials(auth, profile, kp.privateKey)
                             EXCEPT !.inserted = inserted, !.currentUser = profile,
                                    !.refreshTimer = TRUE]
       /\ last' = [op |-> "register", username |-> username, keyFails |-> keyFails,
                   err |-> failed]
       /\ UNCHANGED <<libVars, tasks, retry, chatKeys, channel, remoteVars, queueVars>>

\* the device registers the account of Me
Register == RegisterWith({Me}, BOOLEAN)

\* logout (lines 314-327): the AuthManager it leaves; removeFails when
\* AsyncStorage.multiRemove throws
logout(a, removeFails) ==
  IF removeFails THEN [a EXCEPT !.refreshTimer = FALSE]
  ELSE [a EXCEPT !.refreshTimer = FALSE, !.user_session = NoSession, !.private_key = 0,
                 !.user_profile = NoProfile, !.currentUser = NoProfile]

Logout ==
  \E removeFails \in BOOLEAN :
    /\ auth' = logout(auth, removeFails)
    /\ IF removeFails THEN UNCHANGED <<keyPair, chatKeys>>
       ELSE /\ keyPair' = [keyPair EXCEPT ![Me] = NoKeyPair]
            /\ chatKeys' = [chatKeys EXCEPT ![Me] = clearKeys(chatKeys[Me])]
    /\ last' = [op |-> "logout", err |-> removeFails,
                wasLoggedIn |-> auth.currentUser # NoProfile,
                hadChatKeys |-> chatKeys[Me] # NoChatKeys]
    /\ UNCHANGED <<libVars, tasks, retry, channel, remoteVars, queueVars>>

\* loginWithSession (lines 203-238); an error of logout is caught and null
\* returned
LoginWithSession ==
  \E removeFails \in BOOLEAN :
    /\ IF auth.user_session = NoSession \/ auth.private_key = 0
       THEN /\ ~removeFails
            /\ UNCHANGED <<keyPair, chatKeys, auth>>
            /\ last' = [op |-> "loginWithSession", profile |-> NoProfile]
       ELSE IF auth.user_session.expired
       THEN /\ auth' = logout(auth, removeFails)
            /\ IF removeFails THEN UNCHANGED <<keyPair, chatKeys>>
               ELSE /\ keyPair' = [keyPair EXCEPT ![Me] = NoKeyPair]
                    /\ chatKeys' = [chatKeys EXCEPT ![Me] = clearKeys(chatKeys[Me])]
            /\ last' = [op |-> "loginWithSession", profile |-> NoProfile]
       ELSE /\ ~removeFails
            /\ keyPair' = [keyPair EXCEPT ![Me] =
                             [publicKey |-> auth.user_session.profile.public_key,
                              privateKey |-> auth.private_key]]
            /\ auth' = [auth EXCEPT !.currentUser = auth.user_session.profile,
                                    !.refreshTimer = TRUE]
            /\ last' = [op |-> "loginWithSession", profile |-> auth.user_session.profile]
            /\ UNCHANGED chatKeys
    /\ UNCHANGED <<libVars, tasks, retry, channel, remoteVars, queueVars>>

\* Date.now() passes session.expiresAt, 30 days after the session was stored
SessionExpires ==
  /\ auth.user_session # NoSession
  /\ ~auth.user_session.expired
  /\ auth' = [auth EXCEPT !.user_session.expired = TRUE]
  /\ last' = [op |-> "expire"]
  /\ UNCHANGED <<libVars, tasks, retry, keyPair, chatKeys, channel, remoteVars, queueVars>>

\* "if (!currentUser) throw new Error('User not authenticated')"
Authenticated(u) == u # Me \/ auth.currentUser # NoProfile

SessionInit ==
  /\ keyPair = [u \in Users |-> IF u = Me THEN NoKeyPair ELSE KeyPairOf(u)]
  /\ chatKeys = [u \in Users |-> NoChatKeys]
  /\ chats = << >>
  /\ chat_participants = {}
  /\ group_keys = {}
  /\ channel = {}
  /\ cached = {}
  /\ faults = FALSE
  /\ calls = 0
  /\ pendingMessages = [u \in Users |-> NoPending]
  /\ stored = [u \in Users |-> NoPending]
  /\ localChats = [u \in Users |-> NoLocalChats]
  /\ localMessages = [u \in Users |-> NoLocalMessages]
  /\ auth = NoAuth
  /\ tasks = NoTasks
  /\ retry = NoRetry
  /\ last = NoCall

SessionNext ==
  \/ Register
  \/ LoginWithSession
  \/ Logout
  \/ SessionExpires
  \/ \E u \in Users : Authenticated(u) /\ CreateChat(u)
  \/ \E u \in Users : Authenticated(u) /\ AddGroupMember(u)
  \/ \E u \in Users : Authenticated(u) /\ RemoveGroupMember(u)
  \/ \E u \in Users : Authenticated(u) /\ SendMessage(u)
  \/ DropPayload

SessionSpec == SessionInit /\ [][SessionNext]_vars

\* the AuthManager alone, on a device where more than one account is made
AuthNext ==
  \/ RegisterWith(Accounts, BOOLEAN)
  \/ LoginWithSession
  \/ Logout
  \/ SessionExpires

AuthSpec == SessionInit /\ [][AuthNext]_vars

\* --------------------------------------------- ChatManager of src/lib/chat.ts
\* The ChatManager of src/lib/chat.ts keeps its chats and messages on the
\* device (this.chats, this.messages).  It writes the chats and
\* chat_participants tables in createChat and reads them in getUserChats; it
\* has no group keys and publishes nothing.

LibCalled == calls < MaxLibCalls /\ calls' = calls + 1

\* the devices that run this ChatManager; the other users are only
\* participants
LibDevices == {Me, Peer}

LocalChat(isGroup, createdBy, participants) ==
  [present |-> TRUE, is_group |-> isGroup, created_by |-> createdBy,
   participants |-> participants, last_message |-> Undefined]

\* the existing direct chats that createChat (lines 253-284) returns for the
\* pair: not a group, exactly two chat_participants rows, the caller and the
\* other user among them
ExistingDirectChats(u, other) ==
  { c \in 1..Len(chats) :
      /\ ~chats[c].is_group
      /\ Cardinality(RowsOf(c)) = 2
      /\ \E r \in RowsOf(c) : r.user_id = u
      /\ \E r \in RowsOf(c) : r.user_id = other }

FirstOf(chatIds) == CHOOSE c \in chatIds : \A d \in chatIds : c <= d

LibCreateFailures == {"none", "profiles", "existing", "chats", "chat_participants", "cleanup"}

\* createChat (src/lib/chat.ts lines 194-350); the participant ids are
\* distinct
LibCreateChat(u) ==
  \E participantIds \in SUBSET Users, isGroup \in BOOLEAN, fail \in LibCreateFailures :
    LET chatId == Len(chats) + 1
        chat == [is_group |-> isGroup, created_by |-> u, group_key_version |-> 1]
        allParticipants == {u} \cup participantIds
        existing == IF ~isGroup /\ Cardinality(participantIds) = 1 /\ fail # "existing"
                    THEN ExistingDirectChats(u, CHOOSE id \in participantIds : TRUE)
                    ELSE {}
        failed == [op |-> "createChat", user |-> u, ok |-> FALSE, chatId |-> 0,
                   participantIds |-> participantIds, isGroup |-> isGroup]
    IN /\ LibCalled
       /\ fail # "none" => faults
       /\ fail = "existing" => ~isGroup /\ Cardinality(participantIds) = 1
       /\ fail = "cleanup" => u \in participantIds
       /\ IF participantIds = {} \/ fail = "profiles"
          THEN /\ last' = failed
               /\ UNCHANGED <<sessionVars, chats, chat_participants, libVars>>
          ELSE IF existing # {}
          THEN /\ last' = [failed EXCEPT !.ok = TRUE, !.chatId = FirstOf(existing)]
               /\ UNCHANGED <<sessionVars, chats, chat_participants, libVars>>
          ELSE /\ Len(chats) < MaxLibChats
               /\ IF fail = "chats"
                  THEN /\ last' = failed
                       /\ UNCHANGED <<sessionVars, chats, chat_participants, libVars>>
                  ELSE IF fail = "chat_participants" \/ u \in participantIds
                  THEN /\ chats' = IF fail = "cleanup" THEN Append(chats, chat) ELSE chats
                       /\ last' = failed
                       /\ UNCHANGED <<sessionVars, chat_participants, libVars>>
                  ELSE /\ chats' = Append(chats, chat)
                       /\ chat_participants' = chat_participants
                            \cup { ParticipantRow(chatId, id, IF id = u THEN "admin" ELSE "member")
                                   : id \in allParticipants }
                       /\ localChats' = [localChats EXCEPT ![u][chatId] =
                                           LocalChat(isGroup, u, allParticipants)]
                       /\ localMessages' = [localMessages EXCEPT ![u][chatId] =
                                              [m \in Plaintexts |-> 0]]
                       /\ last' = [failed EXCEPT !.ok = TRUE, !.chatId = chatId]
       /\ UNCHANGED <<sessionVars, keyPair, chatKeys, group_keys, channel, cached, faults, queueVars>>

LibFetchFailures == {"none", "chats", "chat_participants"}

\* getUserChats (src/lib/chat.ts lines 488-554): every chat the caller has a
\* chat_participants row in replaces the device's copy; a failed read of the
\* participants leaves the copy without participants
LibGetUserChats(u) ==
  \E fail \in LibFetchFailures :
    LET mine == { c \in 1..Len(chats) : \E r \in RowsOf(c) : r.user_id = u }
        participantIds(c) == IF fail = "chat_participants" THEN {}
                             ELSE { r.user_id : r \in RowsOf(c) }
    IN /\ LibCalled
       /\ fail # "none" => faults
       /\ localChats' = IF fail = "chats" THEN localChats
                        ELSE [localChats EXCEPT ![u] =
                               [c \in LibChatIds |->
                                  IF c \in mine
                                  THEN LocalChat(chats[c].is_group, chats[c].created_by,
                                                 participantIds(c))
                                  ELSE @[c]]]
       /\ last' = [op |-> "getUserChats", user |-> u, ok |-> TRUE, chatId |-> 0]
       /\ UNCHANGED <<sessionVars, keyPair, chatKeys, chats, chat_participants, group_keys, channel, cached,
                      faults, queueVars, localMessages>>

LibMemberFailures == {"none", "profiles"}

\* the checks addGroupMember and removeGroupMember make before they change
\* the chat (lines 562-566, 595-599)
AnyoneMayChange(chat, u) == chat.present /\ chat.is_group
CreatorMayChange(chat, u) == chat.present /\ chat.is_group /\ chat.created_by = u

\* addGroupMember (src/lib/chat.ts lines 557-587)
LibAddGroupMember(u) ==
  \E chatId \in LibChatIds, userId \in Users, fail \in LibMemberFailures :
    LET chat == localChats[u][chatId]
        ok == CreatorMayChange(chat, u) /\ fail = "none"
    IN /\ LibCalled
       /\ fail # "none" => faults
       /\ localChats' = IF ok THEN [localChats EXCEPT ![u][chatId].participants = @ \cup {userId}]
                        ELSE localChats
       /\ last' = [op |-> "addGroupMember", user |-> u, ok |-> ok, chatId |-> chatId]
       /\ UNCHANGED <<sessionVars, keyPair, chatKeys, chats, chat_participants, group_keys, channel, cached,
                      faults, queueVars, localMessages>>

\* removeGroupMember (src/lib/chat.ts lines 590-609)
LibRemoveGroupMember(u) ==
  \E chatId \in LibChatIds, userId \in Users :
    LET chat == localChats[u][chatId]
        ok == CreatorMayChange(chat, u)
    IN /\ LibCalled
       /\ localChats' = IF ok THEN [localChats EXCEPT ![u][chatId].participants = @ \ {userId}]
                        ELSE localChats
       /\ last' = [op |-> "removeGroupMember", user |-> u, ok |-> ok, chatId |-> chatId]
       /\ UNCHANGED <<sessionVars, keyPair, chatKeys, chats, chat_participants, group_keys, channel, cached,
                      faults, queueVars, localMessages>>

\* "if (!chat.participants.includes(currentUser.id)) throw" (lines 382-390)
NoParticipantCheck(chat, u) == chat.present
IsLocalParticipant(chat, u) == chat.present /\ u \in chat.participants

\* encryptMessage(message, recipientPublicKey) of src/lib/encryption.ts
\* (lines 73-90), the EncryptionManager this ChatManager imports: it throws
\* without a key pair and encrypts under a secret made of the private key and
\* its second argument otherwise.  sendMessage passes it the chat id as the
\* second argument and the participants' keys as a third, which it ignores.
libEncryptThrows(kp, message, recipientPublicKey) == kp = NoKeyPair

\* the try block of sendMessage (src/lib/chat.ts lines 380-447) for a text
\* message: whether it returns.  A failed read of the participants' profiles
\* yields no keys and no error (line 399).
libSendMessage(u, chatId, content) ==
  LET chat == localChats[u][chatId]
  IN [ok |-> IsLocalParticipant(chat, u) /\ ~libEncryptThrows(keyPair[u], content, chatId)]

\* sendMessage (src/lib/chat.ts lines 366-466) called by the user
LibSendMessage(u) ==
  \E chatId \in LibChatIds, content \in Plaintexts :
    LET r == libSendMessage(u, chatId, content)
        queue == SetPending(pendingMessages[u], PendingMessage(chatId, content), 1)
    IN /\ LibCalled
       /\ IF r.ok
          THEN /\ localMessages' = [localMessages EXCEPT ![u][chatId][content] = @ + 1]
               /\ localChats' = [localChats EXCEPT ![u][chatId].last_message = content]
               /\ UNCHANGED queueVars
          ELSE /\ pendingMessages' = [pendingMessages EXCEPT ![u] = queue]
               /\ stored' = [stored EXCEPT ![u] = queue]
               /\ UNCHANGED libVars
       /\ last' = [op |-> "sendMessage", user |-> u, ok |-> r.ok, chatId |-> chatId]
       /\ UNCHANGED <<sessionVars, keyPair, chatKeys, chats, chat_participants, group_keys, channel, cached, faults>>

\* One tick of the retry timer (src/lib/chat.ts lines 163-191) on device u.
\* The entries delivered are appended to the messages of their chats; the
\* last of them sets last_message.
LibRetryPendingMessages(u) ==
  LET queue == pendingMessages[u]
      attempted == Attempted(queue)
      failed == { k \in attempted : ~libSendMessage(u, k.chat_id, k.content).ok }
      delivered == attempted \ failed
  IN /\ last' = [op |-> "retry", user |-> u, ok |-> TRUE, chatId |-> 0]
     /\ pendingMessages' = [pendingMessages EXCEPT ![u] = QueueAfterRetry(queue, failed)]
     /\ stored' = [stored EXCEPT ![u] = pendingMessages'[u]]
     /\ localMessages' = [localMessages EXCEPT ![u] =
          [c \in LibChatIds |-> [m \in Plaintexts |->
             @[c][m] + SumOf(queue, { k \in delivered : k.chat_id = c /\ k.content = m })]]]
     /\ \E lastOf \in [ { k.chat_id : k \in delivered } -> Plaintexts ] :
          /\ \A c \in DOMAIN lastOf : \E k \in delivered : k.chat_id = c /\ k.content = lastOf[c]
          /\ localChats' = [localChats EXCEPT ![u] =
               [c \in LibChatIds |-> IF c \in DOMAIN lastOf
                                     THEN [@[c] EXCEPT !.last_message = lastOf[c]]
                                     ELSE @[c]]]
     /\ UNCHANGED <<sessionVars, keyPair, chatKeys, chats, chat_participants, group_keys, channel, cached,
                    faults, calls>>

LibInit ==
  /\ keyPair = [u \in Users |-> KeyPairOf(u)]
  /\ chatKeys = [u \in Users |-> NoChatKeys]
  /\ chats = << >>
  /\ chat_participants = {}
  /\ group_keys = {}
  /\ channel = {}
  /\ cached = {}
  /\ faults = TRUE
  /\ calls = 0
  /\ pendingMessages = [u \in Users |-> NoPending]
  /\ stored = [u \in Users |-> NoPending]
  /\ localChats = [u \in Users |-> NoLocalChats]
  /\ localMessages = [u \in Users |-> NoLocalMessages]
  /\ auth = NoAuth
  /\ tasks = NoTasks
  /\ retry = NoRetry
  /\ last = NoCall

LibNext ==
  \/ \E u \in LibDevices : LibCreateChat(u)
  \/ \E u \in LibDevices : LibGetUserChats(u)
  \/ \E u \in LibDevices : LibAddGroupMember(u)
  \/ \E u \in LibDevices : LibRemoveGroupMember(u)
  \/ LibSendMessage(Sender)
  \/ LibRetryPendingMessages(Sender)

LibSpec == LibInit /\ [][LibNext]_vars

\* createChat([other], false) of src/lib/chat.ts step by step, when no remote
\* call fails: the calls of the two devices give up control at each await.

\* lines 194-284: up to the answer of the lookup of an existing direct chat
LibLookupExisting(t) ==
  \E u \in LibDevices, other \in Users :
    LET existing == ExistingDirectChats(u, other)
        returned == [op |-> "createChat", user |-> u, ok |-> TRUE, chatId |-> 0,
                     participantIds |-> {other}, isGroup |-> FALSE]
    IN /\ tasks[t].pc = "idle"
       /\ \A o \in TaskIds : o < t => tasks[o].pc # "idle"
       /\ other # u
       /\ ~faults
       /\ LibCalled
       /\ IF existing # {}
          THEN /\ last' = [returned EXCEPT !.chatId = FirstOf(existing)]
               /\ UNCHANGED tasks
          ELSE /\ tasks' = [tasks EXCEPT ![t] = [NoTask EXCEPT !.pc = "chats", !.op = "createChat",
                                                               !.caller = u, !.userId = other]]
               /\ last' = [op |-> "lookup", user |-> u, task |-> t]
       /\ UNCHANGED <<auth, retry, libVars, keyPair, chatKeys, chats, chat_participants,
                      group_keys, channel, cached, faults, queueVars>>

\* lines 287-300: the insert in chats
LibInsertChat(t) ==
  /\ tasks[t].pc = "chats"
  /\ Len(chats) < MaxLibChats
  /\ chats' = Append(chats, [is_group |-> FALSE, created_by |-> tasks[t].caller,
                             group_key_version |-> 1])
  /\ tasks' = [tasks EXCEPT ![t].pc = "chat_participants", ![t].chatId = Len(chats) + 1]
  /\ last' = [op |-> "insertChat", user |-> tasks[t].caller, task |-> t]
  /\ UNCHANGED <<auth, retry, libVars, keyPair, chatKeys, chat_participants, group_keys,
                 channel, cached, faults, calls, queueVars>>

\* lines 302-350: the insert in chat_participants, the device's copy of the
\* chat, and the return
LibInsertParticipants(t) ==
  LET u == tasks[t].caller
      chatId == tasks[t].chatId
      allParticipants == {u, tasks[t].userId}
  IN /\ tasks[t].pc = "chat_participants"
     /\ chat_participants' = chat_participants
          \cup { ParticipantRow(chatId, id, IF id = u THEN "admin" ELSE "member")
                 : id \in allParticipants }
     /\ localChats' = [localChats EXCEPT ![u][chatId] = LocalChat(FALSE, u, allParticipants)]
     /\ localMessages' = [localMessages EXCEPT ![u][chatId] = [m \in Plaintexts |-> 0]]
     /\ tasks' = [tasks EXCEPT ![t] = NoTask]
     /\ last' = [op |-> "createChat", user |-> u, ok |-> TRUE, chatId |-> chatId,
                 participantIds |-> {tasks[t].userId}, isGroup |-> FALSE]
     /\ UNCHANGED <<auth, retry, keyPair, chatKeys, chats, group_keys, channel, cached,
                    faults, calls, queueVars>>

LibStepNext ==
  \/ \E t \in TaskIds : LibLookupExisting(t)
  \/ \E t \in TaskIds : LibInsertChat(t)
  \/ \E t \in TaskIds : LibInsertParticipants(t)

LibStepSpec == MsgInit /\ [][LibStepNext]_vars

\* ------------------------------------------------ retry passes, step by step
\* The ChatManager of device Me (src/unnamed/part_004) with its PendingMessage
\* objects told apart by id.  A pass of retryPendingMessages keeps the array
\* it made of the objects at its start and gives up control at each awaited
\* sendMessage; the timer of startRetryMechanism (lines 82-90) starts a pass
\* every 30 seconds whether or not an earlier one has returned.

\* this.authManager.getCurrentUser(), 0 for null
CurrentUserId == auth.currentUser.user_id

FreeIds(r) == { i \in RetryIds : r.retry_count[i] = -1 }

\* savePendingMessages (lines 106-116): the item holds the entries of the map
savePendingMessages(r) == [r EXCEPT !.store = r.queue]

\* the catch block of sendMessage (lines 311-328): a new PendingMessage under
\* a new id, retry_count 0, set in the map and saved; issuer is the user who
\* first asked for the message to be sent
NewPendingMessage(r, issuer) ==
  LET id == CHOOSE i \in FreeIds(r) : \A j \in FreeIds(r) : i <= j
  IN savePendingMessages([r EXCEPT !.retry_count[id] = 0, !.issuer[id] = issuer,
                                   !.queue = @ \cup {id}])

\* the loop of retryPendingMessages (lines 121-143) from the head of messages
\* up to its next await: a message over the limit is deleted from the map,
\* one under it is handed to sendMessage, which reads the current user
\* (lines 228-231); after the last message the map is saved (line 145)
RECURSIVE Resume(_, _, _, _)
Resume(r, t, messages, user) ==
  IF messages = << >>
  THEN savePendingMessages([r EXCEPT !.pass[t] = NoPass])
  ELSE LET message == Head(messages)
       IN IF r.retry_count[message] < MaxRetries
          THEN [r EXCEPT !.pass[t] = [pc |-> "sendMessage", current |-> message,
                                      messages |-> Tail(messages), sender |-> user]]
          ELSE Resume([r EXCEPT !.queue = @ \ {message}], t, Tail(messages), user)

\* a sendMessage of the user fails after the current user was read
SendFails ==
  /\ CurrentUserId # 0
  /\ FreeIds(retry) # {}
  /\ retry' = NewPendingMessage(retry, CurrentUserId)
  /\ last' = [op |-> "sendMessage", ok |-> FALSE, sender |-> CurrentUserId]
  /\ UNCHANGED <<libVars, auth, tasks, keyPair, chatKeys, channel, remoteVars, queueVars>>

\* the timer fires (lines 84-89): pass t starts with the array of the entries
\* of the map (line 119)
TimerFires(t) ==
  /\ retry.retryTimer
  /\ retry.pass[t].pc = "idle"
  /\ \A o \in TaskIds : o < t => retry.pass[o].pc # "idle"
  /\ retry' = Resume(retry, t, SeqOfSet(retry.queue), CurrentUserId)
  /\ last' = [op |-> "retryPendingMessages", pass |-> t, messages |-> retry.queue]
  /\ UNCHANGED <<libVars, auth, tasks, keyPair, chatKeys, channel, remoteVars, queueVars>>

\* the sendMessage pass t awaits returns or throws (lines 123-138); it throws
\* at once when no user was logged in at the call
SendReturns(t) ==
  \E ok \in BOOLEAN :
    LET p == retry.pass[t]
        message == p.current
        sent == [retry EXCEPT !.delivered[message] = IF @ < 2 THEN @ + 1 ELSE @,
                              !.queue = @ \ {message}]
        queued == IF p.sender = 0 THEN retry
                  ELSE NewPendingMessage(retry, retry.issuer[message])
        thrown == [queued EXCEPT !.retry_count[message] = @ + 1,
                                 !.queue = @ \cup {message}]
    IN /\ p.pc = "sendMessage"
       /\ ok => p.sender # 0
       /\ (~ok /\ p.sender # 0) => FreeIds(retry) # {}
       /\ retry' = Resume(IF ok THEN sent ELSE thrown, t, p.messages, CurrentUserId)
       /\ last' = [op |-> "retrySend", pass |-> t, message |-> message, ok |-> ok,
                   sender |-> p.sender, issuer |-> retry.issuer[message]]
       /\ UNCHANGED <<libVars, auth, tasks, keyPair, chatKeys, channel, remoteVars, queueVars>>

\* clearPendingMessages (lines 570-577); cleared is the entries that were in
\* the map or in the item when a clearPendingMessages or a destroy was called
ClearPendingMessages ==
  /\ retry' = [retry EXCEPT !.queue = {}, !.store = {},
                            !.cleared = @ \cup retry.queue \cup retry.store]
  /\ last' = [op |-> "clearPendingMessages"]
  /\ UNCHANGED <<libVars, auth, tasks, keyPair, chatKeys, channel, remoteVars, queueVars>>

\* destroy (lines 580-587): the timer is cleared and the map emptied
Destroy ==
  /\ retry.retryTimer
  /\ retry' = [retry EXCEPT !.retryTimer = FALSE, !.queue = {},
                            !.cleared = @ \cup retry.queue \cup retry.store]
  /\ last' = [op |-> "destroy"]
  /\ UNCHANGED <<libVars, auth, tasks, keyPair, chatKeys, channel, remoteVars, queueVars>>

\* the state after a register of the account of Me
RetryInit ==
  /\ keyPair = [u \in Users |-> KeyPairOf(u)]
  /\ chatKeys = [u \in Users |-> NoChatKeys]
  /\ chats = << >>
  /\ chat_participants = {}
  /\ group_keys = {}
  /\ channel = {}
  /\ cached = {}
  /\ faults = FALSE
  /\ calls = 0
  /\ pendingMessages = [u \in Users |-> NoPending]
  /\ stored = [u \in Users |-> NoPending]
  /\ localChats = [u \in Users |-> NoLocalChats]
  /\ localMessages = [u \in Users |-> NoLocalMessages]
  /\ auth = [storeCredentials(NoAuth, ProfileOf(Me, KeyPairOf(Me), FALSE), Me)
               EXCEPT !.currentUser = ProfileOf(Me, KeyPairOf(Me), FALSE),
                      !.refreshTimer = TRUE,
                      !.inserted = {ProfileRow(Me, KeyPairOf(Me))}]
  /\ tasks = NoTasks
  /\ retry = NoRetry
  /\ last = NoCall

RetryNext ==
  \/ SendFails
  \/ \E t \in TaskIds : TimerFires(t)
  \/ \E t \in TaskIds : SendReturns(t)
  \/ ClearPendingMessages
  \/ Destroy

RetrySpec == RetryInit /\ [][RetryNext]_vars

\* one device used by one account after another: a pass at a time
FirstPass == CHOOSE t \in TaskIds : \A o \in TaskIds : t <= o
IdentityNext ==
  \/ RegisterWith(Accounts, {FALSE})
  \/ Logout
  \/ SendFails
  \/ TimerFires(FirstPass)
  \/ SendReturns(FirstPass)

IdentitySpec == SessionInit /\ [][IdentityNext]_vars

\* ------------------------------------------------------ messaging properties

SenderOf(p) == CHOOSE u \in Users : profiles[u].public_key = p.sender_public_key

\* a chat that is not a group and has exactly the two users as participants
DirectChatOf(chatId, a, b) ==
  /\ ~chats[chatId].is_group
  /\ a # b
  /\ { r.user_id : r \in RowsOf(chatId) } = {a, b}

\* C1. Direct-secret symmetry: when, in a chat of A and B, A's encryptMessage
\* has derived the pairwise secret from (A.privateKey, B.publicKey) and B's
\* decryptMessage
\* derives the pairwise secret from (B.privateKey, A.publicKey), the two
\* secrets are equal.
C1_DirectSecretSymmetry ==
  (/\ last.op = "deliver"
   /\ last.payload.origin = "sendMessage"
   /\ DirectChatOf(last.payload.chat_id, SenderOf(last.payload), last.user)
   /\ last.payload.encrypted_content.key = DirectSecret(keyPair[SenderOf(last.payload)].privateKey,
                                                        keyPair[last.user].publicKey)
   /\ last.selected.alg = "SHA256") =>
     last.selected = last.payload.encrypted_content.key

\* C2. In a direct chat between A and B, an envelope that A's sendMessage
\* published for a plaintext P and that is delivered to B's subscribeToChat
\* handler is handed to onMessage with content P.
C2_DirectDelivery ==
  (/\ last.op = "deliver"
   /\ last.payload.origin = "sendMessage"
   /\ DirectChatOf(last.payload.chat_id, SenderOf(last.payload), last.user)) =>
     /\ last.onMessage
     /\ last.content = last.payload.encrypted_content.text.body

\* C39. Sender and receiver select the same kind of secret: when a
\* participant receives what another participant's sendMessage published, its
\* decryptMessage selects the pairwise secret if encryptMessage selected the
\* pairwise secret, and the group secret if encryptMessage selected the
\* cached group secret.
C39_SameKindOfSecret ==
  (/\ last.op = "deliver"
   /\ last.payload.origin = "sendMessage"
   /\ \E r \in RowsOf(last.payload.chat_id) : r.user_id = last.user
   /\ \E r \in RowsOf(last.payload.chat_id) : r.user_id = SenderOf(last.payload)) =>
     last.selected.alg = last.payload.encrypted_content.key.alg

\* C10. Tamper detection: a delivery of a ciphertext encrypted under a secret
\* other than the one the receiver selects, or of a ciphertext that no
\* encryptMessage call produced, ends in a decryption error and onMessage is
\* not invoked.
C10_TamperDetection ==
  (/\ last.op = "deliver"
   /\ \/ last.payload.origin # "sendMessage"
      \/ last.payload.encrypted_content.key # last.selected) =>
     ~last.onMessage

\* What anyone can read in a row or a payload without holding a key of their
\* own: the fields in the clear, and the text under a ciphertext whose key
\* travels in the same payload.
ClearIn(sent) ==
  IF "table" \in DOMAIN sent
  THEN IF sent.table = "messages" THEN {sent.file_name} ELSE {}
  ELSE {}
KeysIn(sent) == IF "file_key" \in DOMAIN sent THEN {sent.file_key} ELSE {}
CiphertextsIn(sent) ==
  IF "table" \in DOMAIN sent THEN {}
  ELSE {sent.encrypted_content}
       \cup (IF "encrypted_file" \in DOMAIN sent THEN {sent.encrypted_file} ELSE {})
ReadableIn(sent) ==
  ClearIn(sent) \cup { c.text.body : c \in { d \in CiphertextsIn(sent) : d.key \in KeysIn(sent) } }

\* C24. Message content never leaves the device in plaintext: whether
\* sendMessage succeeds or fails, no row it writes to the remote store and no
\* payload it broadcasts contains the message plaintext or the file plaintext.
C24_NoPlaintextOffDevice ==
  last.op = "sendMessage" =>
    \A sent \in last.rows \cup last.broadcast :
      /\ last.content \notin ReadableIn(sent)
      /\ last.fileData \notin ReadableIn(sent) \ {Undefined}

\* what decryptFile returns to an observer of the transport, who has the
\* payload and no secret of the chat: the keys that travel in the payload are
\* all it can try
ObserverRecovers(payload) ==
  { decryptFile(payload.encrypted_file, key, garbage).data :
      key \in KeysIn(payload), garbage \in GarbageTexts }

\* C40. File confidentiality on the wire: the plaintext of a file sent
\* through sendMessage cannot be recovered from the published payload alone;
\* the single-use file key is not readable by an observer of the transport.
C40_FileConfidentialOnWire ==
  \A p \in channel :
    "encrypted_file" \in DOMAIN p =>
      p.encrypted_file.text.body \notin ObserverRecovers(p)

\* ------------------------------------------------------ group-key properties

MemberCalls == {"addGroupMember", "removeGroupMember"}

\* a step that is a membership call that returned without an error
MemberCallReturns == calls' # calls /\ last'.op \in MemberCalls /\ last'.ok

\* what a member removed from the chat holds: their key pair, the public
\* data, and the secrets the chat had up to the version they were removed at
HeldSecrets(chatId, keyVersion) ==
  { k.sharedSecret : k \in { c \in cached : c.chat_id = chatId /\ c.keyVersion <= keyVersion } }

\* C3. Revocation boundary: after removeGroupMember has removed a member and
\* the admin has derived the next secret, the removed member cannot derive
\* that secret from what they hold, and can still decrypt what was encrypted
\* under the secrets they hold.
C3_RevocationBoundary ==
  (/\ last.op = "removeGroupMember" /\ last.ok /\ last.derived
   /\ last.userId # last.user
   /\ \E r \in RowsOf(last.chatId) : r.user_id = last.userId /\ r.left_at) =>
     LET now == chatKeys[last.user][last.chatId]
         held == HeldSecrets(last.chatId, now.keyVersion - 1)
     IN /\ ~DerivableFrom(now.sharedSecret, {keyPair[last.userId].privateKey}, held)
        /\ \A s \in held, P \in Plaintexts :
             DecryptWith(NoChatKeys, AESencrypt(MessageWithMeta(P), s), s,
                         CHOOSE g \in GarbageTexts : TRUE).content = P

\* C4. Rotation monotonicity: a membership call that returns without an error
\* leaves the stored group_key_version strictly greater than it was, and the
\* secret the admin caches for the chat is none of those it cached before.
C4_RotationMonotonicity ==
  [][MemberCallReturns =>
       LET c == last'.chatId
       IN /\ chats'[c].group_key_version > chats[c].group_key_version
          /\ chatKeys'[last'.user][c].present
          /\ \A k \in cached :
               (k.user = last'.user /\ k.chat_id = c) =>
                 k.sharedSecret # chatKeys'[last'.user][c].sharedSecret]_vars

\* C5. A failed rotation leaves the chat at its old version: a membership
\* call in which a step of rotateGroupKey failed leaves the stored
\* group_key_version unchanged, and a call that bumped it has published an
\* envelope of the new version for every active member.
C5_FailedRotationKeepsVersion ==
  [][MemberCallReturns =>
       LET c == last'.chatId
       IN /\ last'.failed => chats'[c].group_key_version = chats[c].group_key_version
          /\ chats'[c].group_key_version # chats[c].group_key_version =>
               \A r \in { q \in chat_participants' : q.chat_id = c /\ ~q.left_at } :
                 \E e \in group_keys' :
                   /\ e.chat_id = c
                   /\ e.key_version = chats'[c].group_key_version
                   /\ e.user_id = r.user_id]_vars

\* C6. Every envelope published by a group key generation or rotation can be
\* decrypted by the member it is for with the pairwise secret derived from
\* (member.privateKey, admin.publicKey), and contains the group secret the
\* admin derived.
C6_EnvelopeRecoversSecret ==
  [][(calls' # calls /\ last'.ok) =>
       \A e \in group_keys' \ group_keys :
         \A g \in GarbageTexts :
           LET d == DecryptWith(NoChatKeys, e.encrypted_key,
                                DirectSecret(keyPair[e.user_id].privateKey,
                                             keyPair[last'.user].publicKey), g)
           IN /\ ~d.err
              /\ d.content = KeyStr(chatKeys'[last'.user][e.chat_id].sharedSecret)]_vars

\* C7. For a chat id, key version and active roster, every participant
\* computes the secret the admin derived: another active member who calls
\* generateChatKey with the other active members' keys obtains the secret the
\* admin cached in generateGroupKey or rotateGroupKey.
C7_SameSecretForAll ==
  (last.op \in MemberCalls \cup {"createChat"} /\ last.ok /\ last.derived) =>
    LET c == last.chatId
        now == chatKeys[last.user][c]
    IN \A m \in ActiveMembers(c) \ {last.user} :
         generateChatKey(keyPair[m], NoChatKeys, c, PublicKeysOf(ActiveMembers(c) \ {m}),
                         now.keyVersion).secret = now.sharedSecret

\* C36. Local and stored key versions agree: the key_version stamped on an
\* envelope rotateGroupKey publishes (read from chats.group_key_version) is
\* the keyVersion of the admin's cached entry under which the enclosed secret
\* was derived, whatever remote calls failed before.
C36_StampedVersionIsLocalVersion ==
  \A g \in group_keys :
    g.encrypted_key.text.body.kind = "key" =>
      g.key_version = g.encrypted_key.text.body.k.keyVersion

\* C27. Group creation triggers the initial key generation: when
\* createChat(participantIds, true) has returned, the creator's
\* EncryptionManager holds a chat key of version 1 for the new chat, and
\* group_keys holds a version-1 row for every participant of the chat, the
\* creator included.
C27_GroupCreationKeys ==
  (last.op = "createChat" /\ last.ok /\ last.isGroup) =>
    /\ chatKeys[last.user][last.chatId].present
    /\ chatKeys[last.user][last.chatId].keyVersion = 1
    /\ \A p \in RowsOf(last.chatId) :
         \E g \in group_keys :
           g.chat_id = last.chatId /\ g.key_version = 1 /\ g.user_id = p.user_id

\* ---------------------------------------------------- pending-queue properties

Requests == [chat_id : ChatIds, content : Plaintexts]
KindsOf(request) == { k \in EntryKinds : Request(k) = request }

\* a step that is a pass of retryPendingMessages on the sender's device
RetryStep == last'.op = "retry" /\ last'.user = Sender

\* a step that is a sendMessage call of the user
SendStep == calls' # calls /\ last'.op = "sendMessage"

\* C11. Retry ceiling: a pass of retryPendingMessages does not call
\* sendMessage for an entry whose retry_count is 5 or more, and no such entry
\* is in the queue after the pass: the entries at the ceiling after the pass
\* are those that were one below it before, and a request that only had
\* entries at the ceiling has none afterwards and was not published.
C11_RetryCeiling ==
  [][RetryStep =>
       LET queue == pendingMessages[Sender]
           after == pendingMessages'[Sender]
       IN \A k \in EntryKinds :
            /\ \A n \in last'.attempted : n < MaxRetries
            /\ k.retry_count = MaxRetries =>
                 Held(after, k) <= Held(queue, [k EXCEPT !.retry_count = MaxRetries - 1])
            /\ (\A j \in KindsOf(Request(k)) : Held(queue, j) > 0 => j.retry_count >= MaxRetries) =>
                 /\ \A j \in KindsOf(Request(k)) : Held(after, j) = 0
                 /\ Request(k) \notin last'.published]_vars

\* a pass has removed an entry at the ceiling and delivered the others
C11_Witness ==
  /\ last.op = "retry"
  /\ last.dropped > 0
  /\ last.published # {}
  /\ getPendingMessagesCount(pendingMessages[Sender]) = 0

\* C12. Retry is bounded per send request: a failed retry of a pending entry
\* adds no pending entry, so a pass of retryPendingMessages does not make
\* the queue longer.
C12_RetryAddsNoEntry ==
  [][RetryStep =>
       getPendingMessagesCount(pendingMessages'[Sender])
         <= getPendingMessagesCount(pendingMessages[Sender])]_vars

SenderParticipates(chatId) ==
  /\ chatId \in 1..Len(chats)
  /\ Sender \in ActiveMembers(chatId)
  /\ ActiveMembers(chatId) # {Sender}

Queued(request) == \E k \in KindsOf(request) : Held(pendingMessages[Sender], k) > 0
Published(request) ==
  /\ last.op = "retry"
  /\ request \in last.published

Restarted == last.op = "restart"

\* C14. At-least-once delivery: every request that is in the queue at a time
\* from which the transport and the remote store accept every call, and
\* whose sender is a participant of the chat, is eventually published by a
\* retry pass, and the queue eventually becomes empty, unless the process is
\* restarted first.
C14_AtLeastOnce ==
  \A request \in Requests :
    /\ (~faults /\ Queued(request) /\ SenderParticipates(request.chat_id))
         ~> (Published(request) \/ Restarted)
    /\ (~faults /\ Queued(request) /\ SenderParticipates(request.chat_id))
         ~> (getPendingMessagesCount(pendingMessages[Sender]) = 0)

\* C35. A transport failure during a sendMessage call of the user is not
\* surfaced: the request becomes a PendingMessage in the queue and the call
\* raises no error to its caller.
C35_FailedSendNotSurfaced ==
  (/\ last.op = "sendMessage"
   /\ sendMessage(last.user, last.chatId, last.content, "none").ok
   /\ ~last.ok) =>
     /\ Held(pendingMessages[last.user], PendingMessage(last.chatId, last.content)) > 0
     /\ ~last.thrown

\* C15. The pending queue survives a restart: the queue of the ChatManager
\* constructed after the restart holds what was written to 'pending_messages'
\* before, and what this process writes there keeps those entries or their
\* outcome (the store is written from the queue only).
C15_QueueSurvivesRestart ==
  last.op = "restart" => pendingMessages[last.user] = stored[last.user]

\* what a caller can learn about the queue: getPendingMessagesCount();
\* retryPendingMessages returns nothing and throws nothing
CallerVisible(queue) == [getPendingMessagesCount |-> getPendingMessagesCount(queue)]

WithoutExhausted(queue) == [k \in DOMAIN queue \ Exhausted(queue) |-> queue[k]]

\* C16. Dropping an entry at the retry ceiling is observable: what the caller
\* can see after a pass that dropped entries differs from what the caller
\* would see after the same pass had those entries been delivered before it.
C16_DropIsObservable ==
  [][(RetryStep /\ last'.dropped > 0) =>
       LET queue == pendingMessages[Sender]
           failed == CHOOSE f \in SUBSET Attempted(queue) :
                       QueueAfterRetry(queue, f) = pendingMessages'[Sender]
       IN CallerVisible(pendingMessages'[Sender])
            # CallerVisible(QueueAfterRetry(WithoutExhausted(queue), failed))]_vars



\* ------------------------------------------- properties of src/lib/chat.ts

\* a call of createChat([other], false) has just returned or thrown
DirectCreateStep ==
  /\ calls' # calls
  /\ last'.op = "createChat"
  /\ ~last'.isGroup
  /\ Cardinality(last'.participantIds) = 1

OtherOf(call) == CHOOSE id \in call.participantIds : TRUE

\* C17. Direct-chat dedup: when a direct chat of the caller and the other
\* user exists, whichever of the two created it, createChat([other], false)
\* creates no chat, and the id it returns is the id of that chat.  (A call
\* that throws because the store does not answer returns no id.)
C17_DirectChatDedup ==
  [][(DirectCreateStep /\ ExistingDirectChats(last'.user, OtherOf(last')) # {})
       => /\ chats' = chats
          /\ last'.ok => last'.chatId \in ExistingDirectChats(last'.user, OtherOf(last'))]_vars


\* the users with a chat_participants row of the chat
ParticipantsOf(c) == { r.user_id : r \in RowsOf(c) }

\* C18. Every non-group chat has exactly 2 distinct participants, in the
\* chat_participants table and in every device's copy of the chat.
C18_DirectChatHasTwo ==
  /\ \A c \in 1..Len(chats) :
       ~chats[c].is_group => Cardinality(ParticipantsOf(c)) = 2
  /\ \A u \in Users, c \in LibChatIds :
       (localChats[u][c].present /\ ~localChats[u][c].is_group)
         => Cardinality(localChats[u][c].participants) = 2


\* ------------------------------------------------ authorization properties

\* u neither created the chat nor has a chat_participants row with the role
\* admin in it
NotCreatorNorAdmin(chatId, u) ==
  /\ chats[chatId].created_by # u
  /\ \A r \in chat_participants : (r.chat_id = chatId /\ r.user_id = u) => r.role # "admin"

\* C19. Membership mutation is admin-only: addGroupMember or
\* removeGroupMember called by a user who is neither the creator nor an admin
\* of the chat fails and leaves the participants, the key version, the
\* published envelopes and every cached chat secret as they were.
C19_MembershipAdminOnly ==
  [][(/\ calls' # calls
      /\ last'.op \in MemberCalls
      /\ NotCreatorNorAdmin(last'.chatId, last'.user))
       => /\ ~last'.ok
          /\ UNCHANGED <<sessionVars, chat_participants, chats, group_keys, chatKeys, cached, channel>>]_vars

\* a member of a group who is not its admin has called addGroupMember or
\* removeGroupMember and has been refused
C19_Witness ==
  /\ last.op \in MemberCalls
  /\ ~last.ok
  /\ chats[last.chatId].is_group
  /\ last.user \in ActiveMembers(last.chatId)
  /\ NotCreatorNorAdmin(last.chatId, last.user)

\* the same in the ChatManager of src/lib/chat.ts, which keeps the
\* participants on the device: a call by a user who is not the creator of the
\* device's copy of the chat fails and changes no chat
LibMembershipCreatorOnly ==
  [][(/\ calls' # calls
      /\ last'.op \in MemberCalls
      /\ localChats[last'.user][last'.chatId].created_by # last'.user)
       => /\ ~last'.ok
          /\ UNCHANGED <<sessionVars, localChats, chats, chat_participants>>]_vars

\* a participant who fetched a group created by another user has been refused
LibMembershipWitness ==
  /\ last.op \in MemberCalls
  /\ ~last.ok
  /\ localChats[last.user][last.chatId].present
  /\ localChats[last.user][last.chatId].is_group
  /\ last.user \in localChats[last.user][last.chatId].participants
  /\ localChats[last.user][last.chatId].created_by # last.user


\* u is not in the participants of the device's copy of the chat (a chat the
\* device has no copy of has no participants)
NotInChat(u, chatId) == u \notin localChats[u][chatId].participants

\* C20. Only participants may send, in the ChatManager of src/lib/chat.ts:
\* sendMessage called by a user who is not in the chat's participants fails,
\* and neither that call nor a pass of retryPendingMessages appends a message
\* to a chat or changes the last_message of a chat the user is not in.
C20_OnlyParticipantsSend ==
  [][/\ (calls' # calls /\ last'.op = "sendMessage" /\ NotInChat(last'.user, last'.chatId))
          => ~last'.ok
     /\ last'.op \in {"sendMessage", "retry"}
          => \A u \in Users, c \in LibChatIds :
               NotInChat(u, c) => /\ localMessages'[u][c] = localMessages[u][c]
                                  /\ localChats'[u][c] = localChats[u][c]]_vars

\* a retry pass has attempted, and kept, a request for a chat the device has
\* a copy of, with another participant, and that the sender is not in
C20_Witness ==
  /\ last.op = "retry"
  /\ \E k \in EntryKinds :
       /\ Held(pendingMessages[Sender], k) > 0
       /\ k.retry_count > 0
       /\ localChats[Sender][k.chat_id].present
       /\ localChats[Sender][k.chat_id].participants # {}
       /\ NotInChat(Sender, k.chat_id)
       /\ \A m \in Plaintexts : localMessages[Sender][k.chat_id][m] = 0

\* ------------------------------------------------------- session properties

\* C21. After logout returns successfully the EncryptionManager holds no key
\* pair and no cached chat secret, the private key is absent from local
\* storage and currentUser is null, whatever the state logout was called in.
C21_LogoutClears ==
  (last.op = "logout" /\ ~last.err) =>
    /\ keyPair[Me] = NoKeyPair
    /\ \A c \in ChatIds : ~chatKeys[Me][c].present
    /\ auth.private_key = 0
    /\ auth.currentUser = NoProfile

\* a logout that returned after a login, with a chat secret in the cache
C21_Witness ==
  last.op = "logout" /\ ~last.err /\ last.wasLoggedIn /\ last.hadChatKeys

\* C23. A generateKeyPair that fails inside register blocks the account
\* creation: register fails, no profile row is inserted, nothing is written
\* to local storage and currentUser is unchanged.
C23_KeyFailureBlocksRegister ==
  [][(last'.op = "register" /\ last'.keyFails)
       => /\ last'.err
          /\ auth'.inserted = auth.inserted
          /\ auth'.user_session = auth.user_session
          /\ auth'.private_key = auth.private_key
          /\ auth'.user_profile = auth.user_profile
          /\ auth'.currentUser = auth.currentUser]_vars

\* register with a valid username failed on its keys, on a device that is
\* logged in
C23_Witness ==
  /\ last.op = "register" /\ last.keyFails /\ ~validateUsernameThrows(last.username)
  /\ auth.currentUser # NoProfile

\* the key material in the rows of the remote store and in the payloads on
\* the transport: the key fields, and the texts under the ciphertexts
KeysSent ==
  { r.public_key : r \in auth.inserted }
  \cup { p.sender_public_key : p \in channel }
SecretsSent ==
  { g.encrypted_key.text.body : g \in group_keys }
  \cup { p.encrypted_content.text.body : p \in channel }

\* C25. The private key is never transmitted: over any sequence of register,
\* loginWithSession, createChat, sendMessage, addGroupMember,
\* removeGroupMember and logout, no value written to the remote store or
\* published on the transport contains a private key.
C25_PrivateKeyNeverSent ==
  \A k \in PrivateKeys :
    /\ k \notin KeysSent
    /\ KeyStr(PrivateKeySecret(k)) \notin SecretsSent

\* Me has registered and has then sent a message
C25_Witness ==
  /\ auth.inserted # {}
  /\ \E p \in channel : p.sender_public_key = PublicKeyOf(Me)

\* ------------------------------------------------------ rotation properties

\* both membership calls of the admin have returned, having passed the role
\* check, on a group chat
BothReturned ==
  /\ Len(chats) >= RotChat
  /\ chats[RotChat].is_group
  /\ IsAdmin(RotChat, Sender)
  /\ \A t \in TaskIds : tasks[t].pc = "done"

\* the group_keys rows of the chat at the version the chats row holds
FinalEnvelopes ==
  { g \in group_keys : g.chat_id = RotChat /\ g.key_version = chats[RotChat].group_key_version }

\* the outcome of two rotations made one after the other, from the version 1
\* of createChat
SequentialOutcome ==
  /\ chats[RotChat].group_key_version = 3
  /\ { g.user_id : g \in FinalEnvelopes } = ActiveMembers(RotChat)
  /\ chatKeys[Sender][RotChat].present
  /\ chatKeys[Sender][RotChat].keyVersion = chats[RotChat].group_key_version
  /\ \A g \in FinalEnvelopes :
       g.encrypted_key.text.body = KeyStr(chatKeys[Sender][RotChat].sharedSecret)

\* C28. Rotations on the same chat are mutually exclusive: when two
\* membership changes of the admin on one group chat interleave at their
\* awaits, the outcome is that of some sequential order: the stored key
\* version has advanced by exactly 2, envelopes of the final version exist for
\* exactly the final active roster, and the admin's cached secret is the one
\* enclosed in them at that version.
C28_RotationsExclusive == BothReturned => SequentialOutcome

\* the secrets enclosed in the envelopes published for a user
EnvelopedFor(userId) ==
  { g.encrypted_key.text.body : g \in { h \in group_keys : h.chat_id = RotChat /\ h.user_id = userId } }

\* the members recorded as removed
RemovedMembers == { r.user_id : r \in { q \in RowsOf(RotChat) : q.left_at } }

\* C29. No send reads a stale key during a rotation: once removeGroupMember
\* has recorded a member as removed, no sendMessage that starts afterwards on
\* that chat is encrypted under a group secret the removed member held.
C29_NoStaleKeySend ==
  (last.op = "sendMessage" /\ last.ok) =>
    \A p \in channel : \A userId \in RemovedMembers :
      KeyStr(p.encrypted_content.key) \notin EnvelopedFor(userId)

\* C38. Whenever a user is logged in (AuthManager.currentUser is not null),
\* the key pair of the EncryptionManager is that user's: its publicKey equals
\* currentUser.public_key, also after a register that failed partway.
C38_KeyPairIsCurrentUsers ==
  auth.currentUser # NoProfile => keyPair[Me].publicKey = auth.currentUser.public_key

\* C33. After clearPendingMessages (or destroy) has returned, neither the map
\* pendingMessages nor the item 'pending_messages' holds an entry that was
\* there before the call, also when a retry pass was in progress.
C33_ClearedEntriesStayGone ==
  retry.cleared \cap (retry.queue \cup retry.store) = {}

\* C34. Retry passes do not overlap on a PendingMessage: no two passes await
\* the sendMessage of the same entry, and the retry loop delivers an entry at
\* most once.
C34_RetryPassesSerialized ==
  /\ \A t, o \in TaskIds :
       (t # o /\ retry.pass[t].pc = "sendMessage" /\ retry.pass[o].pc = "sendMessage")
         => retry.pass[t].current # retry.pass[o].current
  /\ \A i \in RetryIds : retry.delivered[i] <= 1

\* C37. A queued message is sent only as the user who asked for it: a send
\* of the retry loop that goes through is made by the issuer of its entry.
C37_RetrySendsAsIssuer ==
  (last.op = "retrySend" /\ last.ok) => last.sender = last.issuer

\* C31. At most one non-group chat exists for an unordered pair of users,
\* also when two createChat calls for the pair run at the same time.
C31_DirectChatUniquePerPair ==
  \A c, d \in 1..Len(chats) :
    (/\ ~chats[c].is_group
     /\ ~chats[d].is_group
     /\ Cardinality(ParticipantsOf(c)) = 2
     /\ ParticipantsOf(c) = ParticipantsOf(d)) => c = d

====
